---- MODULE Spec2Model ----
(***************************************************************************)
(* Halifax Transit backend (Express server) and client hooks.              *)
(*                                                                         *)
(* The server keeps the GTFS static indices in module-level variables,     *)
(* assigned once by bootstrap(), and answers each request from them and    *)
(* from a trip-updates feed it downloads while handling the request.       *)
(* The App component of the client loads the static summary once and       *)
(* polls the vehicles on an interval; its state is `app`, the progress of  *)
(* its effects is `effects`, and it has a specification of its own,        *)
(* ClientSpec, that starts from a server that is listening.  ShapeSpec is   *)
(* the same component against a summary that carries its trips under the   *)
(* key the component reads, which lets the shape effect fetch; HookSpec is  *)
(* a component that calls the stop-arrivals hook, whose state is `hook`.    *)
(*                                                                         *)
(* Conventions of the model                                                *)
(*  - A JavaScript string that the code parses, formats or compares        *)
(*    (times of day, dates) is a sequence of one-character strings.        *)
(*    Identifiers (trip, stop, route, service ids) are TLA+ strings.       *)
(*  - A Date is its number of seconds since 1970-01-01T00:00:00 in the     *)
(*    process's local time zone (a fixed offset; the feed's timestamps     *)
(*    are whole seconds).                                                  *)
(*  - NaN, null and undefined of a numeric expression are the negative     *)
(*    sentinels NaN and Null: no number the code computes from the         *)
(*    modelled inputs is negative.                                         *)
(***************************************************************************)
EXTENDS Integers, Sequences, FiniteSets, TLC

VARIABLES
    phase,                  \* "starting" | "listening" | "failed"  (bootstrap)
    routes,                 \* list of routes
    stops,                  \* list of stops
    staticTrips,            \* list of trips
    shapesById,             \* shape id -> sequence-ordered list of points
    stopSchedulesByStopId,  \* stop id -> time-ordered list of stop-time entries
    staticTripsById,        \* trip id -> trip
    routesById,             \* route id -> route
    calendarByServiceId,    \* service id -> calendar entry
    clock,                  \* what new Date() returns
    pending,                \* the request awaiting a feed download
    last,                   \* the last request handled and its response
    app,                    \* the state of the App component (its useState cells)
    effects,                \* what the closures of App's effects hold
    hook                    \* a component that calls useUpcommingArrivals

vars == <<phase, routes, stops, staticTrips, shapesById, stopSchedulesByStopId,
          staticTripsById, routesById, calendarByServiceId, clock, pending, last,
          app, effects, hook>>

client == <<app, effects, hook>>

----------------------------------------------------------------------------
(* Numbers and strings                                                     *)

NaN  == 0 - 1
Null == 0 - 2
NullStr == "null"
NullChars == <<"null">>

Digits == <<"0", "1", "2", "3", "4", "5", "6", "7", "8", "9">>
IsDigit(c) == \E i \in 1..10 : Digits[i] = c
DigitVal(c) == (CHOOSE i \in 1..10 : Digits[i] = c) - 1

\* Collation rank of a character under localeCompare: punctuation sorts
\* before digits, digits in numeric order, letters after digits.
CharRank(c) == IF c = ":" THEN 0 ELSE IF IsDigit(c) THEN 1 + DigitVal(c) ELSE 11

RECURSIVE localeCompare(_, _)
localeCompare(a, b) ==
    IF a = <<>> /\ b = <<>> THEN 0
    ELSE IF a = <<>> THEN 0 - 1
    ELSE IF b = <<>> THEN 1
    ELSE IF CharRank(Head(a)) < CharRank(Head(b)) THEN 0 - 1
    ELSE IF CharRank(Head(a)) > CharRank(Head(b)) THEN 1
    ELSE localeCompare(Tail(a), Tail(b))

\* str.split(':')
RECURSIVE split(_)
split(s) ==
    IF \A i \in 1..Len(s) : s[i] # ":" THEN <<s>>
    ELSE LET k == CHOOSE i \in 1..Len(s) :
                      s[i] = ":" /\ \A j \in 1..(i - 1) : s[j] # ":"
         IN  <<SubSeq(s, 1, k - 1)>> \o split(SubSeq(s, k + 1, Len(s)))

RECURSIVE DecimalValue(_)
DecimalValue(s) ==
    IF s = <<>> THEN 0
    ELSE 10 * DecimalValue(SubSeq(s, 1, Len(s) - 1)) + DigitVal(s[Len(s)])

\* Number(s): the empty string is 0, a digit string its value, anything else NaN
Number(s) ==
    IF \A i \in 1..Len(s) : IsDigit(s[i]) THEN DecimalValue(s) ELSE NaN

\* Number.parseInt(s, 10): the value of the longest digit prefix, NaN if none
parseInt10(s) ==
    LET n == CHOOSE k \in 0..Len(s) :
                 /\ \A i \in 1..k : IsDigit(s[i])
                 /\ (k < Len(s) => ~IsDigit(s[k + 1]))
    IN  IF n = 0 THEN NaN ELSE DecimalValue(SubSeq(s, 1, n))

\* String(n).padStart(2, '0')
padStart2(n) ==
    IF n < 10 THEN <<"0", Digits[n + 1]>>
    ELSE <<Digits[(n \div 10) + 1], Digits[(n % 10) + 1]>>

----------------------------------------------------------------------------
(* Dates                                                                   *)

SecondsPerDay == 24 * 60 * 60

\* Days from 1970-01-01 to the civil date y-m-d (proleptic Gregorian), for
\* 1 <= m <= 12 and d within the month: what new Date(y, m - 1, d) denotes.
DaysFromCivil(y, m, d) ==
    LET yy  == IF m <= 2 THEN y - 1 ELSE y
        era == yy \div 400
        yoe == yy - era * 400
        mp  == IF m > 2 THEN m - 3 ELSE m + 9
        doy == (153 * mp + 2) \div 5 + d - 1
        doe == yoe * 365 + yoe \div 4 - yoe \div 100 + doy
    IN  era * 146097 + doe - 719468

\* new Date(y, monthIndex, d) at local midnight, for the dates of a valid
\* YYYYMMDD string (a blank or non-numeric one gives an Invalid Date, which
\* the archives of the model do not hold)
NewDate(y, monthIndex, d) == DaysFromCivil(y, monthIndex + 1, d) * SecondsPerDay

getDay(t)     == ((t \div SecondsPerDay) + 4) % 7
getHours(t)   == (t % SecondsPerDay) \div 3600
getMinutes(t) == (t % 3600) \div 60
getSeconds(t) == t % 60

parseYyyyMmDd(str) ==
    LET y == Number(SubSeq(str, 1, 4))
        m == Number(SubSeq(str, 5, 6)) - 1
        d == Number(SubSeq(str, 7, 8))
    IN  NewDate(y, m, d)

\* date.toLocaleTimeString('en-CA', {hour: '2-digit', minute: '2-digit', hour12: false})
\* An ICU that resolves hour12: false to the h24 cycle writes the hour after
\* midnight as "24", another as "00"; every other hour is written the same.
\* The predictions of the model are outside that hour.
formatHHMM(date) ==
    padStart2(getHours(date)) \o <<":">> \o padStart2(getMinutes(date))

weekdayKeys ==
    <<"sunday", "monday", "tuesday", "wednesday", "thursday", "friday", "saturday">>

----------------------------------------------------------------------------
(* Static data                                                             *)

\* timeToSeconds of the build (module level)
timeToSeconds(value) ==
    IF value = <<>> THEN Null
    ELSE LET parts == [i \in 1..Len(split(value)) |-> parseInt10(split(value)[i])]
         IN  IF Len(parts) < 2 \/ \E i \in 1..Len(parts) : parts[i] = NaN
             THEN Null
             ELSE parts[1] * 3600 + parts[2] * 60
                  + (IF Len(parts) >= 3 THEN parts[3] ELSE 0)

formatScheduleLabel(timeString) ==
    IF timeString = <<>> THEN <<>>
    ELSE LET parts == split(timeString)
             hourNumber == parseInt10(parts[1]) % 24
         IN  padStart2(hourNumber) \o <<":">>
             \o (IF Len(parts) >= 2 THEN parts[2] ELSE <<"0", "0">>)

parseIntSafe(value) ==
    IF value = <<>> THEN Null
    ELSE IF parseInt10(value) = NaN THEN Null ELSE parseInt10(value)


\* list.sort((a, b) => a.arrivalSeconds - b.arrivalSeconds): a stable sort
RECURSIVE sortByArrivalSeconds(_)
sortByArrivalSeconds(list) ==
    IF list = <<>> THEN <<>>
    ELSE LET rest == sortByArrivalSeconds(SubSeq(list, 1, Len(list) - 1))
             x    == list[Len(list)]
             k    == Cardinality({i \in 1..Len(rest) :
                                    rest[i].arrivalSeconds <= x.arrivalSeconds})
         IN  SubSeq(rest, 1, k) \o <<x>> \o SubSeq(rest, k + 1, Len(rest))

\* stopTimesRaw.forEach(...): the entry a stop_times row contributes, if any
StopTimeRowKept(stopTime) ==
    /\ stopTime.stop_id # "" /\ stopTime.trip_id # ""
    /\ (stopTime.arrival_time # <<>> \/ stopTime.departure_time # <<>>)
    /\ timeToSeconds(IF stopTime.arrival_time # <<>> THEN stopTime.arrival_time
                     ELSE stopTime.departure_time) # Null

StopTimeEntry(stopTime) ==
    LET arrivalTime == IF stopTime.arrival_time # <<>> THEN stopTime.arrival_time
                       ELSE stopTime.departure_time
    IN  [tripId |-> stopTime.trip_id,
         arrivalTime |-> arrivalTime,
         arrivalLabel |-> formatScheduleLabel(arrivalTime),
         arrivalSeconds |-> timeToSeconds(arrivalTime),
         stopSequence |-> IF parseIntSafe(stopTime.stop_sequence) = Null THEN 0
                          ELSE parseIntSafe(stopTime.stop_sequence)]

RECURSIVE StopTimeEntriesOf(_, _)
StopTimeEntriesOf(stopTimesRaw, stopId) ==
    IF stopTimesRaw = <<>> THEN <<>>
    ELSE LET stopTime == Head(stopTimesRaw)
         IN  (IF stopTime.stop_id = stopId /\ StopTimeRowKept(stopTime)
              THEN <<StopTimeEntry(stopTime)>> ELSE <<>>)
             \o StopTimeEntriesOf(Tail(stopTimesRaw), stopId)

\* new Map(rows.map(row => [key, row])): for a repeated key the last row
\* wins.  keys[i] is the key of rows[i].
LastIndexOf(keys, k) ==
    CHOOSE i \in 1..Len(keys) :
        keys[i] = k /\ \A j \in (i + 1)..Len(keys) : keys[j] # k

BuildStopSchedules(stopTimesRaw) ==
    LET ids == {stopTimesRaw[i].stop_id : i \in
                   {j \in 1..Len(stopTimesRaw) : StopTimeRowKept(stopTimesRaw[j])}}
    IN  [id \in ids |-> sortByArrivalSeconds(StopTimeEntriesOf(stopTimesRaw, id))]

TripIds(rows) == [i \in 1..Len(rows) |-> rows[i].trip_id]
RouteIds(rows) == [i \in 1..Len(rows) |-> rows[i].route_id]
ServiceIds(rows) == [i \in 1..Len(rows) |-> rows[i].service_id]

BuildTrips(tripsRaw) ==
    LET ids == {tripsRaw[i].trip_id : i \in 1..Len(tripsRaw)}
    IN  [id \in ids |->
            LET trip == tripsRaw[LastIndexOf(TripIds(tripsRaw), id)]
            IN  [route_id |-> trip.route_id,
                 service_id |-> trip.service_id,
                 trip_id |-> trip.trip_id,
                 trip_headsign |-> trip.trip_headsign,
                 direction_id |-> parseIntSafe(trip.direction_id),
                 shape_id |-> trip.shape_id]]

BuildRoutes(routesRaw) ==
    LET ids == {routesRaw[i].route_id : i \in 1..Len(routesRaw)}
    IN  [id \in ids |->
            LET route == routesRaw[LastIndexOf(RouteIds(routesRaw), id)]
            IN  [route_id |-> route.route_id,
                 route_short_name |-> route.route_short_name,
                 route_long_name |-> route.route_long_name,
                 route_desc |-> route.route_desc,
                 route_type |-> parseIntSafe(route.route_type),
                 route_color |-> route.route_color]]

\* Number.parseFloat(value): an optional sign, digits, an optional fraction;
\* NaN when there is no digit.  A float is its value in thousandths (the
\* coordinates of the model have at most three decimals, and none is -0.001
\* or -0.002, the values of NaN and Null).
DigitPrefixLen(s) ==
    CHOOSE k \in 0..Len(s) :
        /\ \A i \in 1..k : IsDigit(s[i])
        /\ (k < Len(s) => ~IsDigit(s[k + 1]))

parseFloat(s) ==
    LET negative == s # <<>> /\ Head(s) = "-"
        body     == IF negative THEN Tail(s) ELSE s
        n        == DigitPrefixLen(body)
        rest     == SubSeq(body, n + 1, Len(body))
        fraction == IF rest # <<>> /\ Head(rest) = "."
                    THEN SubSeq(Tail(rest), 1, DigitPrefixLen(Tail(rest)))
                    ELSE <<>>
        thousandths == DecimalValue(SubSeq(fraction \o <<"0", "0", "0">>, 1, 3))
        magnitude   == DecimalValue(SubSeq(body, 1, n)) * 1000 + thousandths
    IN  IF n = 0 /\ fraction = <<>> THEN NaN
        ELSE IF negative THEN 0 - magnitude ELSE magnitude

parseFloatSafe(value) ==
    IF parseFloat(value) = NaN THEN Null ELSE parseFloat(value)

\* routesRaw.map(...), stopsRaw.map(...), tripsRaw.map(...)
RouteList(routesRaw) ==
    [i \in 1..Len(routesRaw) |->
        [route_id |-> routesRaw[i].route_id,
         route_short_name |-> routesRaw[i].route_short_name,
         route_long_name |-> routesRaw[i].route_long_name,
         route_desc |-> routesRaw[i].route_desc,
         route_type |-> parseIntSafe(routesRaw[i].route_type),
         route_color |-> routesRaw[i].route_color]]

StopList(stopsRaw) ==
    [i \in 1..Len(stopsRaw) |->
        [stop_id |-> stopsRaw[i].stop_id,
         stop_name |-> stopsRaw[i].stop_name,
         stop_lat |-> parseFloatSafe(stopsRaw[i].stop_lat),
         stop_lon |-> parseFloatSafe(stopsRaw[i].stop_lon)]]

TripList(tripsRaw) ==
    [i \in 1..Len(tripsRaw) |->
        [route_id |-> tripsRaw[i].route_id,
         service_id |-> tripsRaw[i].service_id,
         trip_id |-> tripsRaw[i].trip_id,
         trip_headsign |-> tripsRaw[i].trip_headsign,
         direction_id |-> parseIntSafe(tripsRaw[i].direction_id),
         shape_id |-> tripsRaw[i].shape_id]]

\* shapesRaw.forEach(...): the point a shapes row contributes, if any
ShapeRowKept(shape) ==
    /\ shape.shape_id # ""
    /\ parseFloatSafe(shape.shape_pt_lat) # Null
    /\ parseFloatSafe(shape.shape_pt_lon) # Null

ShapePoint(shape) ==
    [shape_pt_lat |-> parseFloatSafe(shape.shape_pt_lat),
     shape_pt_lon |-> parseFloatSafe(shape.shape_pt_lon),
     shape_pt_sequence |-> IF parseIntSafe(shape.shape_pt_sequence) = Null THEN 0
                           ELSE parseIntSafe(shape.shape_pt_sequence)]

RECURSIVE ShapePointsOf(_, _)
ShapePointsOf(shapesRaw, shapeId) ==
    IF shapesRaw = <<>> THEN <<>>
    ELSE LET shape == Head(shapesRaw)
         IN  (IF shape.shape_id = shapeId /\ ShapeRowKept(shape)
              THEN <<ShapePoint(shape)>> ELSE <<>>)
             \o ShapePointsOf(Tail(shapesRaw), shapeId)

\* pointList.sort((a, b) => a.shape_pt_sequence - b.shape_pt_sequence): stable
RECURSIVE sortBySequence(_)
sortBySequence(pointList) ==
    IF pointList = <<>> THEN <<>>
    ELSE LET rest == sortBySequence(SubSeq(pointList, 1, Len(pointList) - 1))
             x    == pointList[Len(pointList)]
             k    == Cardinality({i \in 1..Len(rest) :
                         rest[i].shape_pt_sequence <= x.shape_pt_sequence})
         IN  SubSeq(rest, 1, k) \o <<x>> \o SubSeq(rest, k + 1, Len(rest))

BuildShapes(shapesRaw) ==
    LET ids == {shapesRaw[i].shape_id : i \in
                   {j \in 1..Len(shapesRaw) : ShapeRowKept(shapesRaw[j])}}
    IN  [id \in ids |-> sortBySequence(ShapePointsOf(shapesRaw, id))]

BuildCalendar(calendarRaw) ==
    LET ids == {calendarRaw[i].service_id : i \in 1..Len(calendarRaw)} \ {""}
    IN  [id \in ids |->
            LET row == calendarRaw[LastIndexOf(ServiceIds(calendarRaw), id)]
            IN  [monday |-> row.monday = "1",
                 tuesday |-> row.tuesday = "1",
                 wednesday |-> row.wednesday = "1",
                 thursday |-> row.thursday = "1",
                 friday |-> row.friday = "1",
                 saturday |-> row.saturday = "1",
                 sunday |-> row.sunday = "1",
                 startDate |-> parseYyyyMmDd(row.start_date),
                 endDate |-> parseYyyyMmDd(row.end_date)]]


----------------------------------------------------------------------------
(* Arrivals                                                                *)

USE_REALTIME_WINDOW_MS == 2 * 60 * 60 * 1000
TwoHours == USE_REALTIME_WINDOW_MS \div 1000
MaxArrivals == 20

Abs(x) == IF x < 0 THEN 0 - x ELSE x

\* array.slice(0, n)
slice0(list, n) == SubSeq(list, 1, IF Len(list) < n THEN Len(list) ELSE n)

isServiceRunningToday(serviceId, today) ==
    IF serviceId \notin DOMAIN calendarByServiceId THEN FALSE
    ELSE LET service == calendarByServiceId[serviceId]
             dayKey  == weekdayKeys[getDay(today) + 1]
         IN  IF ~service[dayKey] THEN FALSE
             ELSE IF today < service.startDate THEN FALSE
             ELSE IF today > service.endDate THEN FALSE
             ELSE TRUE

\* The date the handlers test the service calendar against: both call
\* isServiceRunningToday(trip.service_id) with no second argument, so
\* `today` takes its default, new Date().
ServiceTestDate(time) == clock

\* timeToSeconds of getScheduledArrivalsAtStop and of the static route:
\* t.split(':').map(Number), a missing part is undefined
timeToSecondsOfQuery(t) ==
    LET parts == split(t)
        h == Number(parts[1])
        m == IF Len(parts) >= 2 THEN Number(parts[2]) ELSE NaN
        s == IF Len(parts) >= 3 THEN Number(parts[3]) ELSE NaN
    IN  IF h = NaN \/ m = NaN \/ s = NaN THEN NaN ELSE h * 3600 + m * 60 + s

secondsSinceMidnight(time) ==
    getHours(time) * 3600 + getMinutes(time) * 60 + getSeconds(time)

\* Mutant of IsUpcoming: the comparison reversed.
IsUpcomingReversed(entry, seconds) ==
    /\ timeToSecondsOfQuery(entry.arrivalTime) # NaN
    /\ timeToSecondsOfQuery(entry.arrivalTime) <= seconds

\* entry => timeToSeconds(entry.arrivalTime) >= secondsSinceMidnight
IsUpcoming(entry, seconds) ==
    /\ timeToSecondsOfQuery(entry.arrivalTime) # NaN
    /\ timeToSecondsOfQuery(entry.arrivalTime) >= seconds

\* entry => { trip = staticTripsById.get(entry.tripId); return trip && running }
TripRuns(entry, today) ==
    /\ entry.tripId \in DOMAIN staticTripsById
    /\ isServiceRunningToday(staticTripsById[entry.tripId].service_id, today)

ScheduledArrival(entry) ==
    LET known == entry.tripId \in DOMAIN staticTripsById
        trip  == staticTripsById[entry.tripId]
        hasRoute == known /\ trip.route_id \in DOMAIN routesById
        route == routesById[trip.route_id]
    IN  [tripId |-> entry.tripId,
         arrivalTime |-> entry.arrivalTime,
         arrivalLabel |-> entry.arrivalLabel,
         stopSequence |-> entry.stopSequence,
         routeId |-> IF known THEN trip.route_id ELSE NullStr,
         routeShortName |-> IF hasRoute THEN route.route_short_name ELSE NullStr,
         routeLongName |-> IF hasRoute THEN route.route_long_name ELSE NullStr,
         headsign |-> IF known THEN trip.trip_headsign ELSE NullStr,
         dataSource |-> "Scheduled"]

MapArrivals(entries) == [i \in 1..Len(entries) |-> ScheduledArrival(entries[i])]

ScheduleOf(stopId) ==
    IF stopId \in DOMAIN stopSchedulesByStopId THEN stopSchedulesByStopId[stopId]
    ELSE <<>>

getScheduledArrivalsAtStop(stopId, time) ==
    LET schedule == ScheduleOf(stopId)
        seconds  == secondsSinceMidnight(time)
        Upcoming(entry) == IsUpcoming(entry, seconds)
        Running(entry)  == TripRuns(entry, ServiceTestDate(time))
    IN  MapArrivals(SelectSeq(SelectSeq(schedule, Upcoming), Running))

\* .sort((a, b) => timeToSeconds(a.arrivalTime) - timeToSeconds(b.arrivalTime))
\* over entries that passed the filter, so no key is NaN; stable
RECURSIVE sortByQuerySeconds(_)
sortByQuerySeconds(list) ==
    IF list = <<>> THEN <<>>
    ELSE LET rest == sortByQuerySeconds(SubSeq(list, 1, Len(list) - 1))
             x    == list[Len(list)]
             k    == Cardinality({i \in 1..Len(rest) :
                         timeToSecondsOfQuery(rest[i].arrivalTime)
                             <= timeToSecondsOfQuery(x.arrivalTime)})
         IN  SubSeq(rest, 1, k) \o <<x>> \o SubSeq(rest, k + 1, Len(rest))

\* GET /api/static/stop-arrivals: filter by time, sort, slice, then the calendar
StaticStopArrivals(stopId) ==
    LET schedule == ScheduleOf(stopId)
        seconds  == secondsSinceMidnight(clock)
        Upcoming(entry) == IsUpcoming(entry, seconds)
        Running(entry)  == TripRuns(entry, clock)
        filtered == slice0(sortByQuerySeconds(SelectSeq(schedule, Upcoming)),
                           MaxArrivals)
    IN  MapArrivals(SelectSeq(filtered, Running))

\* arrivals.sort((a, b) => a.arrivalTime.localeCompare(b.arrivalTime)): stable
RECURSIVE sortByArrivalTime(_)
sortByArrivalTime(list) ==
    IF list = <<>> THEN <<>>
    ELSE LET rest == sortByArrivalTime(SubSeq(list, 1, Len(list) - 1))
             x    == list[Len(list)]
             k    == Cardinality({i \in 1..Len(rest) :
                         localeCompare(rest[i].arrivalTime, x.arrivalTime) <= 0})
         IN  SubSeq(rest, 1, k) \o <<x>> \o SubSeq(rest, k + 1, Len(rest))

\* A Map keyed by tripId, as the list of its values in insertion order.
MapHas(map, tripId) == \E i \in 1..Len(map) : map[i].tripId = tripId
MapSet(map, value) ==
    IF MapHas(map, value.tripId)
    THEN [i \in 1..Len(map) |->
            IF map[i].tripId = value.tripId THEN value ELSE map[i]]
    ELSE Append(map, value)

RECURSIVE SetAll(_, _)
SetAll(map, list) ==
    IF list = <<>> THEN map ELSE SetAll(MapSet(map, Head(list)), Tail(list))

\* Mutant of SetAbsent: the has() test dropped, every scheduled entry added.
SetAbsentUnchecked(map, list) == map \o list

\* for (const s of scheduled) if (!byTripId.has(s.tripId)) byTripId.set(...)
RECURSIVE SetAbsent(_, _)
SetAbsent(map, list) ==
    IF list = <<>> THEN map
    ELSE SetAbsent(IF MapHas(map, Head(list).tripId) THEN map
                   ELSE Append(map, Head(list)),
                   Tail(list))

\* Mutant of mergeArrivals: scheduled entries set over realtime ones.
mergeArrivalsScheduledWins(realtime, scheduled) ==
    slice0(sortByArrivalTime(SetAll(SetAll(<<>>, realtime), scheduled)),
           MaxArrivals)

\* Mutant of mergeArrivals: the sort dropped, the map cut in insertion order.
mergeArrivalsUnsorted(realtime, scheduled) ==
    slice0(SetAbsent(SetAll(<<>>, realtime), scheduled), MaxArrivals)

mergeArrivals(realtime, scheduled) ==
    slice0(sortByArrivalTime(SetAbsent(SetAll(<<>>, realtime), scheduled)),
           MaxArrivals)


----------------------------------------------------------------------------
(* Realtime arrivals                                                       *)

\* A decoded FeedMessage is the list feed.entity; an entity is
\*   [hasTripUpdate, tripId ("" when trip or tripId is absent), label,
\*    stopTimeUpdate: list of [stopId, arrival, departure, stopSequence]]
\* where arrival and departure are epoch seconds, Null when absent.

\* Mutant of InRealtimeWindow: the test against now dropped.
InRealtimeWindowUpperOnly(arrivalDate, now) ==
    ~(arrivalDate > now + 2 * 60 * 60)

InRealtimeWindow(arrivalDate, now) ==
    ~(arrivalDate < now \/ arrivalDate > now + 2 * 60 * 60)

RealtimeArrival(entity, stopTime, arrivalDate) ==
    LET known == entity.tripId \in DOMAIN staticTripsById
        tripInfo == staticTripsById[entity.tripId]
        hasRoute == known /\ tripInfo.route_id \in DOMAIN routesById
        routeInfo == routesById[tripInfo.route_id]
    IN  [tripId |-> entity.tripId,
         arrivalTime |-> formatHHMM(arrivalDate),
         arrivalLabel |-> entity.label,
         stopSequence |-> stopTime.stopSequence,
         routeId |-> IF known THEN tripInfo.route_id ELSE NullStr,
         routeShortName |-> IF hasRoute THEN routeInfo.route_short_name ELSE NullStr,
         routeLongName |-> IF hasRoute THEN routeInfo.route_long_name ELSE NullStr,
         headsign |-> IF known THEN tripInfo.trip_headsign ELSE NullStr,
         dataSource |-> "Realtime"]

arrivalTimestampOf(stopTime) ==
    IF stopTime.arrival # Null THEN stopTime.arrival ELSE stopTime.departure

\* if (!existing || arrival.arrivalTime.localeCompare(existing.arrivalTime) < 0)
Replaces(arrival, map) ==
    \/ ~MapHas(map, arrival.tripId)
    \/ \E i \in 1..Len(map) :
          /\ map[i].tripId = arrival.tripId
          /\ localeCompare(arrival.arrivalTime, map[i].arrival.arrivalTime) < 0

\* tripUpdate.stopTimeUpdate?.forEach(stopTime => ...).  The map holds, per
\* trip id, the arrival kept and the arrivalDate it was made from.
RECURSIVE ScanStopTimes(_, _, _, _, _)
ScanStopTimes(map, entity, updates, stopId, now) ==
    IF updates = <<>> THEN map
    ELSE LET stopTime == Head(updates)
             arrivalTimestamp == arrivalTimestampOf(stopTime)
             arrivalDate == arrivalTimestamp
             arrival == RealtimeArrival(entity, stopTime, arrivalDate)
             skip == \/ stopTime.stopId # stopId
                     \/ arrivalTimestamp = Null \/ arrivalTimestamp = 0
                     \/ ~InRealtimeWindow(arrivalDate, now)
             next == IF skip \/ ~Replaces(arrival, map) THEN map
                     ELSE MapSet(map, [tripId |-> entity.tripId,
                                       arrival |-> arrival,
                                       at |-> arrivalDate])
         IN  ScanStopTimes(next, entity, Tail(updates), stopId, now)

\* feed.entity.forEach(entity => ...)
RECURSIVE ScanEntities(_, _, _, _)
ScanEntities(map, entities, stopId, now) ==
    IF entities = <<>> THEN map
    ELSE LET entity == Head(entities)
             next == IF ~entity.hasTripUpdate \/ entity.tripId = "" THEN map
                     ELSE ScanStopTimes(map, entity, entity.stopTimeUpdate,
                                        stopId, now)
         IN  ScanEntities(next, Tail(entities), stopId, now)

arrivalsByTripId(feed, stopId, now) == ScanEntities(<<>>, feed, stopId, now)

\* getBusesArrivingAtStop once the feed is downloaded and decoded
getBusesArrivingAtStop(feed, stopId, now) ==
    LET map == arrivalsByTripId(feed, stopId, now)
    IN  slice0(sortByArrivalTime([i \in 1..Len(map) |-> map[i].arrival]),
               MaxArrivals)

\* A decoded vehicle-positions FeedMessage is the list feed.entity; an entity is
\*   [id, hasVehicle, hasPosition, latitude, longitude, bearing, speed,
\*    descriptorId, label, tripId, routeId]
\* where an absent string is NullStr and an absent number Null; coordinates
\* are in thousandths of a degree.

\* Mutant of VehicleRecord: the position of an entity that has none is
\* filled with the origin.
VehicleRecordAtOrigin(entity) ==
    [entityId |-> entity.id,
     vehicleId |-> IF entity.descriptorId # NullStr THEN entity.descriptorId
                   ELSE IF entity.label # NullStr THEN entity.label
                   ELSE entity.id,
     tripId |-> entity.tripId,
     routeId |-> entity.routeId,
     position |-> IF entity.hasPosition
                  THEN [latitude |-> entity.latitude, longitude |-> entity.longitude,
                        bearing |-> entity.bearing, speed |-> entity.speed]
                  ELSE [latitude |-> 0, longitude |-> 0,
                        bearing |-> Null, speed |-> Null],
     label |-> entity.label]

\* .map(entity => ...): position = vehicle.position ?? {}
VehicleRecord(entity) ==
    [entityId |-> entity.id,
     vehicleId |-> IF entity.descriptorId # NullStr THEN entity.descriptorId
                   ELSE IF entity.label # NullStr THEN entity.label
                   ELSE entity.id,
     tripId |-> entity.tripId,
     routeId |-> entity.routeId,
     position |-> IF entity.hasPosition
                  THEN [latitude |-> entity.latitude, longitude |-> entity.longitude,
                        bearing |-> entity.bearing, speed |-> entity.speed]
                  ELSE [latitude |-> Null, longitude |-> Null,
                        bearing |-> Null, speed |-> Null],
     label |-> entity.label]

\* loadVehiclePositions once the feed is downloaded and decoded
loadVehiclePositions(feed) ==
    LET HasVehicle(entity) == entity.hasVehicle
        kept == SelectSeq(feed, HasVehicle)
    IN  [i \in 1..Len(kept) |-> VehicleRecord(kept[i])]


----------------------------------------------------------------------------
(* Inputs: the archives, the clock, the requests and the feeds             *)

MaxStopTimes == 2      \* stop_times rows of a short archive
LongLen == 22          \* stop_times rows of a long archive
MaxEntities == 2       \* entities of a trip-updates feed
MaxShapeRows == 2      \* shapes rows of an archive

At(y, m, d, hh, mm) == NewDate(y, m - 1, d) + hh * 3600 + mm * 60

Chars0800 == <<"0", "8", ":", "0", "0", ":", "0", "0">>
Chars0830 == <<"0", "8", ":", "3", "0", ":", "0", "0">>
Chars900  == <<"9", ":", "0", "0", ":", "0", "0">>
Chars1000 == <<"1", "0", ":", "0", "0", ":", "0", "0">>
Lat4465 == <<"4", "4", ".", "6", "5">>
Lat4466 == <<"4", "4", ".", "6", "6">>
Lat4467 == <<"4", "4", ".", "6", "7">>
Lon6357 == <<"-", "6", "3", ".", "5", "7", "5", "2">>
Date20240101 == <<"2", "0", "2", "4", "0", "1", "0", "1">>
Date20240304 == <<"2", "0", "2", "4", "0", "3", "0", "4">>
Date20241231 == <<"2", "0", "2", "4", "1", "2", "3", "1">>

RequiredTables ==
    {"routes.txt", "stops.txt", "trips.txt", "shapes.txt", "stop_times.txt",
     "calendar.txt"}

RouteRow(id) ==
    [route_id |-> id, route_short_name |-> id, route_long_name |-> "Main Line",
     route_desc |-> "", route_type |-> <<"3">>, route_color |-> "FFFFFF"]

TripRow(id, route, service) ==
    [route_id |-> route, service_id |-> service, trip_id |-> id,
     trip_headsign |-> "Downtown", direction_id |-> <<"0">>, shape_id |-> "SH1"]

StopTimeRow(stop, trip, time, sequence) ==
    [stop_id |-> stop, trip_id |-> trip, arrival_time |-> time,
     departure_time |-> time, stop_sequence |-> sequence]

StopRow(id, name, lat, lon) ==
    [stop_id |-> id, stop_name |-> name, stop_lat |-> lat, stop_lon |-> lon]

ShapeRow(id, lat, lon, sequence) ==
    [shape_id |-> id, shape_pt_lat |-> lat, shape_pt_lon |-> lon,
     shape_pt_sequence |-> sequence]

Flag(b) == IF b THEN "1" ELSE "0"

CalendarRow(service, weekdays, weekend, monday, start, end) ==
    [service_id |-> service, monday |-> Flag(monday), tuesday |-> Flag(weekdays),
     wednesday |-> Flag(weekdays), thursday |-> Flag(weekdays),
     friday |-> Flag(weekdays), saturday |-> Flag(weekend),
     sunday |-> Flag(weekend), start_date |-> start, end_date |-> end]

\* Service WD runs on weekdays, WE on weekends; XX has no calendar row.
Calendar(monday, end) ==
    <<CalendarRow("WD", TRUE, FALSE, monday, Date20240101, end),
      CalendarRow("WE", FALSE, TRUE, FALSE, Date20240101, Date20241231)>>

Calendars ==
    {Calendar(TRUE, Date20241231), Calendar(FALSE, Date20241231),
     Calendar(TRUE, Date20240304)}

ShortTrips ==
    <<TripRow("T1", "1", "WD"), TripRow("T2", "1", "WE"), TripRow("T3", "9", "XX")>>

\* S2 is a second stop.
StopTimeRows ==
    {StopTimeRow("S1", "T1", Chars0800, <<"1">>),
     StopTimeRow("S1", "T1", Chars900, <<"9">>),
     StopTimeRow("S1", "T2", Chars1000, <<"1">>),
     StopTimeRow("S1", "T3", Chars0830, <<>>),
     StopTimeRow("S2", "T1", Chars0830, <<"4">>)}

\* The stops of every archive; the second has a blank latitude.
Stops ==
    <<StopRow("S1", "Main St", Lat4465, Lon6357),
      StopRow("S2", "Side St", <<>>, Lon6357)>>

\* Rows of shapes.txt: two rows share the sequence number 2, one has the
\* sequence number 0, one a blank sequence number, one a blank latitude.
ShapeRows ==
    {ShapeRow("SH1", Lat4465, Lon6357, <<"2">>),
     ShapeRow("SH1", Lat4466, Lon6357, <<"0">>),
     ShapeRow("SH1", Lat4467, Lon6357, <<"2">>),
     ShapeRow("SH1", Lat4465, Lon6357, <<>>),
     ShapeRow("SH2", <<>>, Lon6357, <<"1">>)}

OneShape == <<ShapeRow("SH1", Lat4466, Lon6357, <<"1">>)>>

SeqsUpTo(S, n) == UNION {[1..k -> S] : k \in 0..n}
NoRepeat(list) == \A i, j \in 1..Len(list) : list[i] = list[j] => i = j

\* The short archives: up to MaxStopTimes different stop_times rows; every
\* calendar with the archives of at most one row, the full-year weekday
\* calendar with the others.
ShortArchives ==
    {[entries |-> RequiredTables, malformed |-> {}, routes |-> <<RouteRow("1")>>,
      stops |-> Stops, trips |-> ShortTrips, shapes |-> OneShape,
      stop_times |-> x[1], calendar |-> x[2]] :
        x \in {y \in SeqsUpTo(StopTimeRows, MaxStopTimes) \X Calendars :
                  /\ NoRepeat(y[1])
                  /\ (Len(y[1]) <= 1 \/ y[2] = Calendar(TRUE, Date20241231))}}

\* A long archive: LongLen trips L1, L2, ... one minute apart at stop S1,
\* the first `idle` of them on the weekend service.
LongTripId(i) == "L" \o ToString(i)
LongTime(i) == <<"0", "8", ":">> \o padStart2(i) \o <<":", "0", "0">>
LongArchive(idle) ==
    [entries |-> RequiredTables, malformed |-> {}, routes |-> <<RouteRow("1")>>,
     stops |-> Stops, shapes |-> OneShape,
     trips |-> [i \in 1..LongLen |->
                  TripRow(LongTripId(i), "1", IF i <= idle THEN "WE" ELSE "WD")],
     stop_times |-> [i \in 1..LongLen |->
                  StopTimeRow("S1", LongTripId(i), LongTime(i), <<"1">>)],
     calendar |-> <<CalendarRow("WD", TRUE, FALSE, TRUE, Date20240101, Date20241231),
                    CalendarRow("WE", FALSE, TRUE, FALSE, Date20240101, Date20241231)>>]

LongArchives == {LongArchive(0), LongArchive(MaxArrivals)}

\* The archives that differ in shapes.txt: up to MaxShapeRows different rows,
\* with no stop_times row.
ShapeArchives ==
    {[entries |-> RequiredTables, malformed |-> {}, routes |-> <<RouteRow("1")>>,
      stops |-> Stops, trips |-> ShortTrips, shapes |-> x,
      stop_times |-> <<>>, calendar |-> Calendar(TRUE, Date20241231)] :
        x \in {y \in SeqsUpTo(ShapeRows, MaxShapeRows) : NoRepeat(y)}}

\* An archive without calendar.txt, and one whose shapes.txt does not parse.
BrokenArchive ==
    [entries |-> RequiredTables \ {"calendar.txt"}, malformed |-> {},
     routes |-> <<RouteRow("1")>>, stops |-> Stops, trips |-> ShortTrips,
     shapes |-> OneShape, stop_times |-> <<>>, calendar |-> <<>>]

MalformedArchive ==
    [entries |-> RequiredTables, malformed |-> {"shapes.txt"},
     routes |-> <<RouteRow("1")>>, stops |-> Stops, trips |-> ShortTrips,
     shapes |-> <<>>, stop_times |-> <<>>,
     calendar |-> Calendar(TRUE, Date20241231)]

\* An archive with a time of day without seconds and one after 24:00:00.
Chars0845 == <<"0", "8", ":", "4", "5">>
Chars2500 == <<"2", "5", ":", "0", "0", ":", "0", "0">>
OddTimesArchive ==
    [entries |-> RequiredTables, malformed |-> {}, routes |-> <<RouteRow("1")>>,
     stops |-> Stops, trips |-> ShortTrips, shapes |-> OneShape,
     stop_times |-> <<StopTimeRow("S1", "T1", Chars0845, <<"1">>),
                      StopTimeRow("S1", "T1", Chars2500, <<"2">>)>>,
     calendar |-> Calendar(TRUE, Date20241231)]

Archives ==
    ShortArchives \cup LongArchives \cup ShapeArchives
        \cup {BrokenArchive, MalformedArchive, OddTimesArchive}

\* 2024-03-03 is a Sunday, 2024-03-04 a Monday.
ClockTimes ==
    {At(2024, 3, 3, 7, 0), At(2024, 3, 4, 6, 30), At(2024, 3, 4, 23, 30)}

NoTime == 0 - 1        \* no time parameter
BadTime == 0 - 2       \* a time parameter new Date() cannot parse
TimeParams == {NoTime, BadTime, At(2024, 3, 3, 8, 15), At(2024, 3, 4, 7, 0)}

StopIds == {"", "S1", "S2"}

StopTimeUpdate(stop, arrival, departure) ==
    [stopId |-> stop, arrival |-> arrival, departure |-> departure,
     stopSequence |-> 5]

Entity(trip, updates) ==
    [hasTripUpdate |-> TRUE, tripId |-> trip, label |-> <<"7">>,
     stopTimeUpdate |-> updates]

Entities ==
    {Entity("T1", <<StopTimeUpdate("S1", At(2024, 3, 4, 6, 40), Null)>>),
     Entity("T1", <<StopTimeUpdate("S1", At(2024, 3, 4, 23, 50), Null),
                    StopTimeUpdate("S1", At(2024, 3, 5, 1, 10), Null)>>),
     Entity("T1", <<StopTimeUpdate("S1", Null, At(2024, 3, 5, 1, 10))>>),
     Entity("T2", <<StopTimeUpdate("S1", 0, Null),
                    StopTimeUpdate("S1", At(2024, 3, 4, 23, 50), Null)>>),
     Entity("T2", <<StopTimeUpdate("S2", At(2024, 3, 4, 6, 40), Null),
                    StopTimeUpdate("S1", At(2024, 3, 4, 6, 45), Null),
                    StopTimeUpdate("S1", At(2024, 3, 4, 6, 0), Null)>>),
     Entity("", <<StopTimeUpdate("S1", At(2024, 3, 4, 23, 50), Null)>>),
     [hasTripUpdate |-> FALSE, tripId |-> "", label |-> NullChars,
      stopTimeUpdate |-> <<>>]}

Feeds == SeqsUpTo(Entities, MaxEntities)

ShapeIds == {"", "SH1", "SH2", "SH9"}

VehicleEntity(id, hasVehicle, hasPosition, descriptorId, tripId) ==
    [id |-> id, hasVehicle |-> hasVehicle, hasPosition |-> hasPosition,
     latitude |-> IF hasPosition THEN 44650 ELSE Null,
     longitude |-> IF hasPosition THEN 0 - 63575 ELSE Null,
     bearing |-> IF hasPosition THEN 90 ELSE Null,
     speed |-> Null, descriptorId |-> descriptorId, label |-> NullStr,
     tripId |-> tripId, routeId |-> IF tripId = NullStr THEN NullStr ELSE "1"]

\* A vehicle with a position, one without, an entity that is no vehicle, and
\* a vehicle with a position but no descriptor and no trip.
VehicleEntities ==
    {VehicleEntity("e1", TRUE, TRUE, "bus1", "T1"),
     VehicleEntity("e2", TRUE, FALSE, "bus2", "T2"),
     VehicleEntity("e3", FALSE, FALSE, NullStr, NullStr),
     VehicleEntity("e4", TRUE, TRUE, NullStr, NullStr)}

VehicleFeeds == {f \in SeqsUpTo(VehicleEntities, MaxEntities) : NoRepeat(f)}
FewFeeds == SeqsUpTo(Entities, 1)

----------------------------------------------------------------------------
(* The server                                                              *)

\* Requests share no mutable state (the handlers only read the indices), so
\* the model follows one request at a time: `pending` is the request whose
\* handler awaits the download, `last` the response of the request handled
\* last, with what the handler computed on the way.  The clock may advance
\* while a download is outstanding.
NoPending == [route |-> "none", stopId |-> "", time |-> 0, now |-> 0]

Response(route, stopId, status, time, now, fetched, rtNow, kept, offered, realtime, scheduled, arrivals) ==
    [route |-> route, stopId |-> stopId, status |-> status, time |-> time,
     now |-> now, fetched |-> fetched, rtNow |-> rtNow, kept |-> kept,
     offered |-> offered, realtime |-> realtime, scheduled |-> scheduled,
     arrivals |-> arrivals, shapeId |-> "", feed |-> <<>>, unnamed |-> <<>>,
     body |-> <<>>]

NoResponse == Response("none", "", 0, 0, 0, FALSE, 0, {}, {}, <<>>, <<>>, <<>>)
BadRequest(route) == Response(route, "", 400, 0, 0, FALSE, 0, {}, {}, <<>>, <<>>, <<>>)
Ok(route) == Response(route, "", 200, 0, 0, FALSE, 0, {}, {}, <<>>, <<>>, <<>>)

\* The App component before it is mounted: the initial values of its state
\* cells, and no effect run yet.  A cycle of the vehicle poll is
\*   [state, aborted (its controller's signal), payload (the response body)].
InitialApp ==
    [routes |-> <<>>, stops |-> <<>>, trips |-> <<>>, vehicles |-> <<>>,
     selectedVehicleId |-> NullStr,
     loadingStatic |-> TRUE, staticError |-> NullStr, realtimeError |-> NullStr,
     shapeCache |-> [id \in {} |-> <<>>], shapeError |-> NullStr]

\* A fetch of the shape effect is
\*   [shapeId, cancelled (the flag of its effect run), state, payload,
\*    tripChanged (the selected trip changed after the fetch started)];
\* shapeRun is the fetch of the last run of the shape effect, 0 if that run
\* returned before starting one.
NotMounted ==
    [mounted |-> FALSE, cancelled |-> FALSE, summary |-> "idle",
     cycles |-> <<>>, commits |-> <<>>, shapes |-> <<>>, shapeRun |-> 0]

\* useUpcommingArrivals before its component renders: the initial values of
\* its state cells, no stopId yet and no effect run.  A request is
\*   [stopId, cancelled (the flag of its effect's closure), state, payload];
\* shownFor is the stopId of the request whose response `arrivals` holds.
NotRendered ==
    [mounted |-> FALSE, unmounted |-> FALSE, stopId |-> "", arrivals |-> <<>>,
     loading |-> FALSE, error |-> NullStr, requests |-> <<>>, shownFor |-> ""]

\* The value of a module-level variable before bootstrap() assigns it:
\* undefined, written UndefinedList for a variable that is to hold an array
\* and UndefinedMap for one that is to hold a Map.
UndefinedList == <<[undefined |-> TRUE]>>
UndefinedMap == [key \in {"undefined"} |-> <<>>]

Init ==
    /\ phase = "starting"
    /\ routes = UndefinedList
    /\ stops = UndefinedList
    /\ staticTrips = UndefinedList
    /\ shapesById = UndefinedMap
    /\ stopSchedulesByStopId = UndefinedMap
    /\ staticTripsById = UndefinedMap
    /\ routesById = UndefinedMap
    /\ calendarByServiceId = UndefinedMap
    /\ clock \in ClockTimes
    /\ pending = NoPending
    /\ last = NoResponse
    /\ app = InitialApp
    /\ effects = NotMounted
    /\ hook = NotRendered

\* loadStaticData() resolves: findEntry finds every table and parseCsv
\* parses each of them
Loads(archive) ==
    RequiredTables \subseteq archive.entries /\ archive.malformed = {}

\* Mutant of Bootstrap: the server listens whatever loadStaticData() did.
BootstrapUnchecked(archive) ==
    /\ phase = "starting"
    /\ phase' = "listening"
    /\ IF Loads(archive)
       THEN /\ routes' = RouteList(archive.routes)
            /\ stops' = StopList(archive.stops)
            /\ staticTrips' = TripList(archive.trips)
            /\ shapesById' = BuildShapes(archive.shapes)
            /\ stopSchedulesByStopId' = BuildStopSchedules(archive.stop_times)
            /\ staticTripsById' = BuildTrips(archive.trips)
            /\ routesById' = BuildRoutes(archive.routes)
            /\ calendarByServiceId' = BuildCalendar(archive.calendar)
       ELSE UNCHANGED <<routes, stops, staticTrips, shapesById,
                        stopSchedulesByStopId, staticTripsById, routesById,
                        calendarByServiceId>>
    /\ UNCHANGED <<client, clock, pending, last>>

\* bootstrap(): loadStaticData() resolves, the indices are assigned, listen()
Bootstrap(archive) ==
    /\ phase = "starting"
    /\ Loads(archive)
    /\ phase' = "listening"
    /\ routes' = RouteList(archive.routes)
    /\ stops' = StopList(archive.stops)
    /\ staticTrips' = TripList(archive.trips)
    /\ shapesById' = BuildShapes(archive.shapes)
    /\ stopSchedulesByStopId' = BuildStopSchedules(archive.stop_times)
    /\ staticTripsById' = BuildTrips(archive.trips)
    /\ routesById' = BuildRoutes(archive.routes)
    /\ calendarByServiceId' = BuildCalendar(archive.calendar)
    /\ UNCHANGED <<client, clock, pending, last>>

\* bootstrap(): findEntry throws, loadStaticData() rejects, nothing is assigned
BootstrapFails(archive) ==
    /\ phase = "starting"
    /\ ~Loads(archive)
    /\ phase' = "failed"
    /\ UNCHANGED <<routes, stops, staticTrips, shapesById, stopSchedulesByStopId,
                   staticTripsById, routesById, calendarByServiceId, clock,
                   pending, last, client>>

Tick ==
    /\ \E t \in ClockTimes : t > clock /\ clock' = t
    /\ UNCHANGED <<phase, routes, stops, staticTrips, shapesById,
                   stopSchedulesByStopId, staticTripsById, routesById,
                   calendarByServiceId, pending, last, client>>

static == <<phase, routes, stops, staticTrips, shapesById, stopSchedulesByStopId,
            staticTripsById, routesById, calendarByServiceId>>

\* parseRequestTime(req)
parseRequestTime(timeParam) ==
    IF timeParam = NoTime \/ timeParam = BadTime THEN clock ELSE timeParam

\* Mutant of canUseRealtime: the window test dropped.
canUseRealtimeAlways(requestTime, now) == TRUE

canUseRealtime(requestTime, now) == Abs(requestTime - now) <= TwoHours

\* Mutant of GetStaticStopArrivals: the first 20 are taken with splice, which
\* removes them from the list of the index.
GetStaticStopArrivalsSplice(stopId) ==
    /\ phase = "listening" /\ pending = NoPending
    /\ last' = IF stopId = "" THEN BadRequest("static")
               ELSE Response("static", stopId, 200, clock, clock, FALSE, 0, {}, {},
                             <<>>, <<>>, StaticStopArrivals(stopId))
    /\ stopSchedulesByStopId' =
          IF stopId \in DOMAIN stopSchedulesByStopId
          THEN [stopSchedulesByStopId EXCEPT
                   ![stopId] = SubSeq(@, MaxArrivals + 1, Len(@))]
          ELSE stopSchedulesByStopId
    /\ UNCHANGED <<client, phase, routes, stops, staticTrips, shapesById,
                   staticTripsById, routesById, calendarByServiceId, clock,
                   pending>>

\* GET /api/static/stop-arrivals
GetStaticStopArrivals(stopId) ==
    /\ phase = "listening" /\ pending = NoPending
    /\ last' = IF stopId = "" THEN BadRequest("static")
               ELSE Response("static", stopId, 200, clock, clock, FALSE, 0, {}, {},
                             <<>>, <<>>, StaticStopArrivals(stopId))
    /\ UNCHANGED <<client, static, clock, pending>>

\* Mutant of GetRealtimeStopArrivals: the test of stopId dropped.
GetRealtimeStopArrivalsUnchecked(stopId) ==
    /\ phase = "listening" /\ pending = NoPending
    /\ last' = NoResponse
    /\ pending' = [route |-> "realtime", stopId |-> stopId,
                   time |-> clock, now |-> clock]
    /\ UNCHANGED <<client, static, clock>>

\* GET /api/realtime/stop-arrivals, up to the download of the feed
GetRealtimeStopArrivals(stopId) ==
    /\ phase = "listening" /\ pending = NoPending
    /\ IF stopId = ""
       THEN last' = BadRequest("realtime") /\ pending' = pending
       ELSE /\ last' = NoResponse
            /\ pending' = [route |-> "realtime", stopId |-> stopId,
                           time |-> clock, now |-> clock]
    /\ UNCHANGED <<client, static, clock>>

\* GET /api/stop-arrivals, up to the download of the feed, or to the response
\* when the feed is not used
GetStopArrivals(stopId, timeParam) ==
    /\ phase = "listening" /\ pending = NoPending
    /\ LET requestTime == parseRequestTime(timeParam)
           now == clock
           scheduledArrivals == getScheduledArrivalsAtStop(stopId, requestTime)
       IN  IF stopId = ""
           THEN last' = BadRequest("merged") /\ pending' = pending
           ELSE IF canUseRealtime(requestTime, now)
           THEN /\ last' = NoResponse
                /\ pending' = [route |-> "merged", stopId |-> stopId,
                               time |-> requestTime, now |-> now]
           ELSE /\ last' = Response("merged", stopId, 200, requestTime, now, FALSE,
                                    0, {}, {}, <<>>, scheduledArrivals,
                                    mergeArrivals(<<>>, scheduledArrivals))
                /\ pending' = pending
    /\ UNCHANGED <<client, static, clock>>

\* res.json({ routes, stops, staticTrips })
SummaryBody == [routes |-> routes, stops |-> stops, staticTrips |-> staticTrips]

\* GET /api/static/summary
GetSummary ==
    /\ phase = "listening" /\ pending = NoPending
    /\ last' = [Ok("summary") EXCEPT !.body = SummaryBody]
    /\ UNCHANGED <<client, static, clock, pending>>

\* Mutant of ShapeOf: the `?? []` dropped, an unknown shape gives undefined.
ShapeOfUnchecked(shapeId) ==
    IF shapeId \in DOMAIN shapesById THEN shapesById[shapeId] ELSE UndefinedList

\* shapesById.get(String(shapeId)) ?? []
ShapeOf(shapeId) ==
    IF shapeId \in DOMAIN shapesById THEN shapesById[shapeId] ELSE <<>>

\* GET /api/static/shape
GetShape(shapeId) ==
    /\ phase = "listening" /\ pending = NoPending
    /\ last' = IF shapeId = "" THEN BadRequest("shape")
               ELSE [Ok("shape") EXCEPT !.shapeId = shapeId,
                                        !.body = [points |-> ShapeOf(shapeId)]]
    /\ UNCHANGED <<client, static, clock, pending>>

\* GET /api/realtime/vehicles, up to the download of the feed
GetVehicles ==
    /\ phase = "listening" /\ pending = NoPending
    /\ last' = NoResponse
    /\ pending' = [route |-> "vehicles", stopId |-> "", time |-> 0, now |-> 0]
    /\ UNCHANGED <<client, static, clock>>

\* readVehicleFeedBuffer() and decode succeed: the rest of the handler
VehiclesFetched(feed) ==
    /\ pending.route = "vehicles"
    /\ last' = [Ok("vehicles") EXCEPT
                   !.fetched = TRUE, !.feed = feed,
                   !.body = [vehicles |-> loadVehiclePositions(feed)]]
    /\ pending' = NoPending
    /\ UNCHANGED <<client, static, clock>>

\* fetch rejects, the status is not ok, or decode throws: 500
VehiclesFailed ==
    /\ pending.route = "vehicles"
    /\ last' = [Ok("vehicles") EXCEPT !.status = 500, !.fetched = TRUE]
    /\ pending' = NoPending
    /\ UNCHANGED <<client, static, clock>>

\* The predictions the feed offers for the stop, as (trip id, predicted time)
\* pairs: what the arrivals kept are judged against.
OfferedPredictions(feed, stopId) ==
    UNION {{[tripId |-> feed[i].tripId,
             at |-> arrivalTimestampOf(feed[i].stopTimeUpdate[j])] :
               j \in {j \in 1..Len(feed[i].stopTimeUpdate) :
                   /\ feed[i].stopTimeUpdate[j].stopId = stopId
                   /\ arrivalTimestampOf(feed[i].stopTimeUpdate[j]) > 0}} :
           i \in {i \in 1..Len(feed) :
                   feed[i].hasTripUpdate /\ feed[i].tripId # ""}}

KeptPredictions(feed, stopId, now) ==
    LET map == arrivalsByTripId(feed, stopId, now)
    IN  {[tripId |-> map[i].tripId, at |-> map[i].at] : i \in 1..Len(map)}

\* The feeds tried against the indices built: every feed for indices of at
\* most one stop-time entry, the feeds of at most one entity for larger ones.
ScheduleSize ==
    Cardinality({<<id, i>> \in (DOMAIN stopSchedulesByStopId) \X (1..LongLen) :
                    i <= Len(stopSchedulesByStopId[id])})
FeedsTried ==
    IF ScheduleSize <= 1 /\ shapesById = BuildShapes(OneShape) THEN Feeds
    ELSE FewFeeds

\* The trip updates of the feed that have no trip identifier.
WithoutTripId(feed) ==
    LET Unnamed(entity) == entity.hasTripUpdate /\ entity.tripId = ""
    IN  SelectSeq(feed, Unnamed)

\* readTripUpdatesBuffer() and decode succeed: the rest of the handler
TripUpdatesFetched(feed) ==
    /\ pending.route \in {"realtime", "merged"}
    /\ LET now == clock
           realtimeArrivals == getBusesArrivingAtStop(feed, pending.stopId, now)
           scheduledArrivals ==
               getScheduledArrivalsAtStop(pending.stopId, pending.time)
           kept == KeptPredictions(feed, pending.stopId, now)
           offered == OfferedPredictions(feed, pending.stopId)
           response ==
               IF pending.route = "realtime"
               THEN Response("realtime", pending.stopId, 200, pending.time,
                             pending.now, TRUE, now, kept, offered,
                             realtimeArrivals, <<>>, realtimeArrivals)
               ELSE Response("merged", pending.stopId, 200, pending.time,
                             pending.now, TRUE, now, kept, offered,
                             realtimeArrivals, scheduledArrivals,
                             mergeArrivals(realtimeArrivals, scheduledArrivals))
       IN  last' = [response EXCEPT !.unnamed = WithoutTripId(feed)]
    /\ pending' = NoPending
    /\ UNCHANGED <<client, static, clock>>

\* fetch rejects, the status is not ok, or decode throws: the handler's catch
\* passes the error to the error middleware, which answers 500
TripUpdatesFailed ==
    /\ pending.route \in {"realtime", "merged"}
    /\ last' = Response(pending.route, pending.stopId, 500, pending.time,
                        pending.now, TRUE, 0, {}, {}, <<>>, <<>>, <<>>)
    /\ pending' = NoPending
    /\ UNCHANGED <<client, static, clock>>

Next ==
    \/ \E archive \in Archives : Bootstrap(archive)
    \/ \E archive \in Archives : BootstrapFails(archive)
    \/ Tick
    \/ \E stopId \in StopIds : GetStaticStopArrivals(stopId)
    \/ \E stopId \in StopIds : GetRealtimeStopArrivals(stopId)
    \/ \E stopId \in StopIds, timeParam \in TimeParams :
           GetStopArrivals(stopId, timeParam)
    \/ \E feed \in FeedsTried : TripUpdatesFetched(feed)
    \/ TripUpdatesFailed
    \/ GetSummary
    \/ \E shapeId \in ShapeIds : GetShape(shapeId)
    \/ GetVehicles
    \/ \E feed \in VehicleFeeds : VehiclesFetched(feed)
    \/ VehiclesFailed

Spec == Init /\ [][Next]_vars


----------------------------------------------------------------------------
(* The App component: the static summary load and the vehicle poll         *)

\* The client runs against a server that is listening.  A cycle of the poll
\* is one call of fetchVehicles: "fetching" while it awaits fetch(),
\* "decoding" while it awaits response.json(), then "committed" (it set the
\* vehicles), "returned" (it found cancelled set), "failed" (its catch ran)
\* or "aborted" (its await rejected with an AbortError).  effects.commits
\* records, for each setVehicles, the cycle that called it and the newest
\* cycle started by then.

MaxCycles == 3         \* calls of fetchVehicles

server == <<static, clock, pending, last>>

isFiniteNumber(value) == value # Null /\ value # NaN

\* data.key ?? []
OrEmpty(data, key) == IF key \in DOMAIN data THEN data[key] ELSE <<>>

\* vehicle.vehicleId || vehicle.entityId || `vehicle-${vehicle.routeId ?? 'unknown'}`
ClientVehicle(vehicle) ==
    [id |-> IF vehicle.vehicleId \notin {NullStr, ""} THEN vehicle.vehicleId
            ELSE IF vehicle.entityId \notin {NullStr, ""} THEN vehicle.entityId
            ELSE "vehicle-" \o (IF vehicle.routeId = NullStr THEN "unknown"
                                 ELSE vehicle.routeId),
     routeId |-> vehicle.routeId,
     tripId |-> vehicle.tripId,
     latitude |-> vehicle.position.latitude,
     longitude |-> vehicle.position.longitude,
     bearing |-> vehicle.position.bearing,
     speed |-> vehicle.position.speed,
     label |-> vehicle.label]

nowVehicles(payload) ==
    LET Located(vehicle) == /\ isFiniteNumber(vehicle.position.latitude)
                            /\ isFiniteNumber(vehicle.position.longitude)
        kept == SelectSeq(OrEmpty(payload, "vehicles"), Located)
    IN  [i \in 1..Len(kept) |-> ClientVehicle(kept[i])]

\* vehicles.some((vehicle) => vehicle.id === id)
HasVehicle(a, id) == \E i \in 1..Len(a.vehicles) : a.vehicles[i].id = id

\* Mutant of selectionEffect: a selection is kept whatever the list holds.
selectionEffectKeeps(a) ==
    IF a.vehicles = <<>> THEN [a EXCEPT !.selectedVehicleId = NullStr]
    ELSE IF a.selectedVehicleId \notin {NullStr, ""} THEN a
    ELSE [a EXCEPT !.selectedVehicleId = a.vehicles[1].id]

\* The effect on [vehicles]: no selection for an empty list, else the
\* current one if the list holds it, else the first vehicle
selectionEffect(a) ==
    IF a.vehicles = <<>> THEN [a EXCEPT !.selectedVehicleId = NullStr]
    ELSE IF a.selectedVehicleId \notin {NullStr, ""}
            /\ HasVehicle(a, a.selectedVehicleId) THEN a
    ELSE [a EXCEPT !.selectedVehicleId = a.vehicles[1].id]

\* selectedVehicle: vehicles.find((vehicle) => vehicle.id === selectedVehicleId)
selectedVehicleIndex(a) ==
    IF HasVehicle(a, a.selectedVehicleId)
    THEN CHOOSE i \in 1..Len(a.vehicles) :
             /\ a.vehicles[i].id = a.selectedVehicleId
             /\ \A j \in 1..(i - 1) : a.vehicles[j].id # a.selectedVehicleId
    ELSE 0

\* selectedTrip: tripsById.get(selectedVehicle.tripId) ?? null, tripsById
\* being new Map(trips.map((trip) => [trip.trip_id, trip])).  A trip is told
\* by its trip_id; the trips are loaded once.
NoTrip == [trip_id |-> NullStr, shape_id |-> NullStr]
selectedTrip(a) ==
    LET i == selectedVehicleIndex(a)
        tripId == a.vehicles[i].tripId
        rows == {j \in 1..Len(a.trips) : a.trips[j].trip_id = tripId}
        row == CHOOSE j \in rows : \A other \in rows : other <= j
    IN  IF i = 0 THEN NoTrip
        ELSE IF tripId \in {NullStr, ""} \/ rows = {} THEN NoTrip
        ELSE [trip_id |-> a.trips[row].trip_id, shape_id |-> a.trips[row].shape_id]

NewShapeFetch(shapeId) ==
    [shapeId |-> shapeId, cancelled |-> FALSE, state |-> "fetching",
     payload |-> [points |-> <<>>], tripChanged |-> FALSE]

\* A call of fetchShape that is over holds no response any more.
ShapeOver(fetch, state) ==
    [fetch EXCEPT !.state = state, !.payload = [points |-> <<>>]]

\* The cleanup of the last run of the shape effect: cancelled = true
shapeCleanup(e) ==
    IF e.shapeRun = 0 THEN e
    ELSE [e EXCEPT !.shapes[e.shapeRun].cancelled = TRUE]

\* The fetches that were started before the selected trip changed.
NoteTripChange(e, changed) ==
    IF changed
    THEN [e EXCEPT !.shapes = [j \in 1..Len(@) |-> [@[j] EXCEPT !.tripChanged = TRUE]]]
    ELSE e

\* The effect on [selectedTrip, shapeCache] at the render that shows `a`
\* after the render that showed `before`: when a dependency changed, the
\* cleanup of the last run, then a fetch unless there is no shape id or the
\* cache has it.
shapeEffect(before, a, e) ==
    LET tripChanged == selectedTrip(a) # selectedTrip(before)
        shapeId == selectedTrip(a).shape_id
        cleaned == NoteTripChange(shapeCleanup(e), tripChanged)
    IN  IF ~tripChanged /\ a.shapeCache = before.shapeCache THEN e
        ELSE IF shapeId \in {NullStr, ""} \/ shapeId \in DOMAIN a.shapeCache
        THEN [cleaned EXCEPT !.shapeRun = 0]
        ELSE [cleaned EXCEPT !.shapes = Append(@, NewShapeFetch(shapeId)),
                             !.shapeRun = Len(cleaned.shapes) + 1]

\* The renders that follow an update of the state from `a` to `b`: the
\* effects of the render of `b`, then those of the render the selection
\* effect asks for.
appAfter(b) == selectionEffect(b)
effectsAfter(a, b, e) == shapeEffect(b, appAfter(b), shapeEffect(a, b, e))

NoPayload == [vehicles |-> <<>>]
NewCycle == [state |-> "fetching", aborted |-> FALSE, payload |-> NoPayload]

\* A call of fetchVehicles that is over holds no response any more.
Ended(cycle, state) == [cycle EXCEPT !.state = state, !.payload = NoPayload]

\* controller.abort() for the controller of a cycle.  A pending fetch()
\* rejects with an AbortError.  A pending response.json() rejects too where
\* the body is still streamed, and is not affected where fetch() resolved
\* with the body already buffered (the fetch of React Native, built on
\* XMLHttpRequest): `buffered` is that choice.
abort(cycle, buffered) ==
    IF cycle.state = "fetching" \/ (cycle.state = "decoding" /\ ~buffered)
    THEN [Ended(cycle, "aborted") EXCEPT !.aborted = TRUE]
    ELSE [cycle EXCEPT !.aborted = TRUE]

abortNewest(cycles, buffered) ==
    [cycles EXCEPT ![Len(cycles)] = abort(@, buffered)]

\* The client runs against the archive without stop_times rows, and the
\* vehicle feeds of at most one entity.
ClientArchives ==
    {archive \in ShortArchives :
        Len(archive.stop_times) = 0
            /\ archive.calendar = Calendar(TRUE, Date20241231)}
TwoVehicles ==
    <<VehicleEntity("e1", TRUE, TRUE, "bus1", "T1"),
      VehicleEntity("e4", TRUE, TRUE, NullStr, NullStr)>>
ClientFeeds == {feed \in VehicleFeeds : Len(feed) <= 1} \cup {TwoVehicles}

\* The ids of the vehicles the feeds of the client give.
VehicleIds == {"bus1", "e4"}

ClientInit ==
    /\ phase = "listening"
    /\ \E archive \in ClientArchives :
          /\ routes = RouteList(archive.routes)
          /\ stops = StopList(archive.stops)
          /\ staticTrips = TripList(archive.trips)
          /\ shapesById = BuildShapes(archive.shapes)
          /\ stopSchedulesByStopId = BuildStopSchedules(archive.stop_times)
          /\ staticTripsById = BuildTrips(archive.trips)
          /\ routesById = BuildRoutes(archive.routes)
          /\ calendarByServiceId = BuildCalendar(archive.calendar)
    /\ clock = At(2024, 3, 4, 6, 30)
    /\ pending = NoPending
    /\ last = NoResponse
    /\ app = InitialApp
    /\ effects = NotMounted
    /\ hook = NotRendered

\* The first render: both effects run
Mount ==
    /\ ~effects.mounted
    /\ effects' = [effects EXCEPT !.mounted = TRUE, !.summary = "fetching",
                                  !.cycles = <<NewCycle>>]
    /\ app' = selectionEffect([app EXCEPT !.loadingStatic = TRUE,
                                          !.staticError = NullStr])
    /\ UNCHANGED <<server, hook>>

\* loadStaticSummary: the response is ok and its body decodes to `data`
SummaryLoadedWith(data) ==
    /\ effects.summary = "fetching"
    /\ LET loaded == [app EXCEPT !.routes = OrEmpty(data, "routes"),
                                 !.stops = OrEmpty(data, "stops"),
                                 !.trips = OrEmpty(data, "trips"),
                                 !.loadingStatic = FALSE]
           done == [effects EXCEPT !.summary = "loaded"]
       IN  IF effects.cancelled
           THEN app' = app /\ effects' = done
           ELSE app' = loaded /\ effects' = shapeEffect(app, loaded, done)
    /\ UNCHANGED <<server, hook>>

\* The summary comes from this repository's server.
SummaryLoaded == SummaryLoadedWith(SummaryBody)

\* loadStaticSummary: fetch rejects, the status is not ok, or json() rejects
SummaryFailed ==
    /\ effects.summary = "fetching"
    /\ app' = IF effects.cancelled THEN app
              ELSE [app EXCEPT !.staticError = "error", !.loadingStatic = FALSE]
    /\ effects' = [effects EXCEPT !.summary = "failed"]
    /\ UNCHANGED <<server, hook>>

\* fetchVehicles: fetch() resolves with an ok response
VehiclesRespond(k, feed) ==
    /\ k \in 1..Len(effects.cycles)
    /\ effects.cycles[k].state = "fetching"
    /\ effects' = [effects EXCEPT
                      !.cycles[k].state = "decoding",
                      !.cycles[k].payload = [vehicles |-> loadVehiclePositions(feed)]]
    /\ UNCHANGED <<app, server, hook>>

\* fetchVehicles: response.json() resolves
VehiclesDecoded(k) ==
    /\ k \in 1..Len(effects.cycles)
    /\ effects.cycles[k].state = "decoding"
    /\ IF effects.cancelled
       THEN /\ effects' = [effects EXCEPT !.cycles[k] = Ended(@, "returned")]
            /\ app' = app
       ELSE LET shown == [app EXCEPT
                             !.vehicles = nowVehicles(effects.cycles[k].payload),
                             !.realtimeError = NullStr]
                 done == [effects EXCEPT
                             !.cycles[k] = Ended(@, "committed"),
                             !.commits = Append(@, [cycle |-> k,
                                                    newest |-> Len(effects.cycles)])]
            IN  /\ effects' = effectsAfter(app, shown, done)
                /\ app' = appAfter(shown)
    /\ UNCHANGED <<server, hook>>

\* Mutant of VehiclesFail: the catch also empties the vehicles.
VehiclesFailClears(k) ==
    /\ k \in 1..Len(effects.cycles)
    /\ effects.cycles[k].state \in {"fetching", "decoding"}
    /\ effects' = [effects EXCEPT !.cycles[k] = Ended(@, "failed")]
    /\ app' = IF effects.cancelled THEN app
              ELSE [app EXCEPT !.realtimeError = "error", !.vehicles = <<>>]
    /\ UNCHANGED <<server, hook>>

\* fetchVehicles: fetch() rejects (network), the status is not ok, or
\* response.json() rejects (undecodable body): the catch
VehiclesFail(k) ==
    /\ k \in 1..Len(effects.cycles)
    /\ effects.cycles[k].state \in {"fetching", "decoding"}
    /\ effects' = [effects EXCEPT !.cycles[k] = Ended(@, "failed")]
    /\ app' = IF effects.cancelled THEN app
              ELSE [app EXCEPT !.realtimeError = "error"]
    /\ UNCHANGED <<server, hook>>

\* A press on the marker or on the card of a vehicle of the list
SelectVehicle(id) ==
    /\ effects.mounted /\ ~effects.cancelled
    /\ HasVehicle(app, id)
    /\ app' = [app EXCEPT !.selectedVehicleId = id]
    /\ effects' = shapeEffect(app, app', effects)
    /\ UNCHANGED <<server, hook>>

\* The setInterval callback: abort, new controller, fetchVehicles()
IntervalTick(buffered) ==
    /\ effects.mounted /\ ~effects.cancelled
    /\ Len(effects.cycles) < MaxCycles
    /\ effects' = [effects EXCEPT
                      !.cycles = Append(abortNewest(@, buffered), NewCycle)]
    /\ UNCHANGED <<app, server, hook>>

\* The cleanups of the effects
Unmount(buffered) ==
    /\ effects.mounted /\ ~effects.cancelled
    /\ effects' = [shapeCleanup(effects) EXCEPT
                      !.cancelled = TRUE,
                      !.cycles = abortNewest(@, buffered)]
    /\ UNCHANGED <<app, server, hook>>

\* fetchShape: fetch() resolves with an ok response
ShapeRespond(j) ==
    /\ j \in 1..Len(effects.shapes)
    /\ effects.shapes[j].state = "fetching"
    /\ effects' = [effects EXCEPT
                      !.shapes[j].state = "decoding",
                      !.shapes[j].payload =
                          [points |-> ShapeOf(effects.shapes[j].shapeId)]]
    /\ UNCHANGED <<app, server, hook>>

\* (data.points ?? []).filter(...).map(...)
coordinatesOf(data) ==
    LET Located(point) == /\ isFiniteNumber(point.shape_pt_lat)
                          /\ isFiniteNumber(point.shape_pt_lon)
        kept == SelectSeq(OrEmpty(data, "points"), Located)
    IN  [i \in 1..Len(kept) |->
            [latitude |-> kept[i].shape_pt_lat, longitude |-> kept[i].shape_pt_lon]]

\* setShapeCache((previous) => previous.has(shapeId) ? previous : next)
cacheShape(previous, shapeId, coordinates) ==
    IF shapeId \in DOMAIN previous THEN previous
    ELSE [id \in DOMAIN previous \cup {shapeId} |->
             IF id = shapeId THEN coordinates ELSE previous[id]]

\* What fetchShape does with a decoded body when it is not cancelled.
ShapeApplied(j) ==
    LET fetch == effects.shapes[j]
        cached == [app EXCEPT
                      !.shapeCache = cacheShape(@, fetch.shapeId,
                                                coordinatesOf(fetch.payload)),
                      !.shapeError = NullStr]
        done == [effects EXCEPT !.shapes[j] = ShapeOver(@, "applied")]
    IN  app' = cached /\ effects' = shapeEffect(app, cached, done)

\* Mutant of ShapeDecoded: the body is applied whatever `cancelled` says.
ShapeDecodedUnchecked(j) ==
    /\ j \in 1..Len(effects.shapes)
    /\ effects.shapes[j].state = "decoding"
    /\ ShapeApplied(j)
    /\ UNCHANGED <<server, hook>>

\* fetchShape: response.json() resolves
ShapeDecoded(j) ==
    /\ j \in 1..Len(effects.shapes)
    /\ effects.shapes[j].state = "decoding"
    /\ IF effects.shapes[j].cancelled
       THEN /\ effects' = [effects EXCEPT !.shapes[j] = ShapeOver(@, "ignored")]
            /\ app' = app
       ELSE ShapeApplied(j)
    /\ UNCHANGED <<server, hook>>

\* fetchShape: fetch() rejects, the status is not ok, or json() rejects
ShapeFail(j) ==
    /\ j \in 1..Len(effects.shapes)
    /\ effects.shapes[j].state \in {"fetching", "decoding"}
    /\ IF effects.shapes[j].cancelled
       THEN /\ effects' = [effects EXCEPT !.shapes[j] = ShapeOver(@, "ignored")]
            /\ app' = app
       ELSE /\ effects' = [effects EXCEPT !.shapes[j] = ShapeOver(@, "failed")]
            /\ app' = [app EXCEPT !.shapeError = "error"]
    /\ UNCHANGED <<server, hook>>

ClientNext ==
    \/ Mount
    \/ SummaryLoaded
    \/ SummaryFailed
    \/ \E k \in 1..MaxCycles, feed \in ClientFeeds : VehiclesRespond(k, feed)
    \/ \E k \in 1..MaxCycles : VehiclesDecoded(k)
    \/ \E k \in 1..MaxCycles : VehiclesFail(k)
    \/ \E id \in VehicleIds : SelectVehicle(id)
    \/ \E buffered \in BOOLEAN : IntervalTick(buffered)
    \/ \E buffered \in BOOLEAN : Unmount(buffered)

ClientSpec == ClientInit /\ [][ClientNext]_vars


----------------------------------------------------------------------------
(* The App component against a summary that names its trips `trips`       *)

MaxShapeFetches == 3
MaxPolls == 2

\* The archive has the trips T1 and T2 on the shapes SH1 and SH2, and T3 on
\* a shape that shapes.txt does not have.
TripOnShape(id, shape) == [TripRow(id, "1", "WD") EXCEPT !.shape_id = shape]
ShapeTripsArchive ==
    [entries |-> RequiredTables, malformed |-> {}, routes |-> <<RouteRow("1")>>,
     stops |-> Stops,
     trips |-> <<TripOnShape("T1", "SH1"), TripOnShape("T2", "SH2"),
                 TripOnShape("T3", "SH9")>>,
     shapes |-> <<ShapeRow("SH1", Lat4466, Lon6357, <<"1">>),
                  ShapeRow("SH2", Lat4467, Lon6357, <<"1">>)>>,
     stop_times |-> <<>>, calendar |-> Calendar(TRUE, Date20241231)]

\* The body of a summary whose trips are under the key the App reads.
TripsBody == [routes |-> routes, stops |-> stops, trips |-> staticTrips]

\* Feeds of vehicles on the trips T1, T2 and T3.
ShapeFeeds ==
    {<<VehicleEntity("e1", TRUE, TRUE, "bus1", "T1")>>,
     <<VehicleEntity("e5", TRUE, TRUE, "bus5", "T2")>>,
     <<VehicleEntity("e1", TRUE, TRUE, "bus1", "T1"),
       VehicleEntity("e5", TRUE, TRUE, "bus5", "T2"),
       VehicleEntity("e6", TRUE, TRUE, "bus6", "T3")>>}
ShapeVehicleIds == {"bus1", "bus5", "bus6"}

ShapeInit ==
    /\ phase = "listening"
    /\ routes = RouteList(ShapeTripsArchive.routes)
    /\ stops = StopList(ShapeTripsArchive.stops)
    /\ staticTrips = TripList(ShapeTripsArchive.trips)
    /\ shapesById = BuildShapes(ShapeTripsArchive.shapes)
    /\ stopSchedulesByStopId = BuildStopSchedules(ShapeTripsArchive.stop_times)
    /\ staticTripsById = BuildTrips(ShapeTripsArchive.trips)
    /\ routesById = BuildRoutes(ShapeTripsArchive.routes)
    /\ calendarByServiceId = BuildCalendar(ShapeTripsArchive.calendar)
    /\ clock = At(2024, 3, 4, 6, 30)
    /\ pending = NoPending
    /\ last = NoResponse
    /\ app = InitialApp
    /\ effects = NotMounted
    /\ hook = NotRendered

MayFetchShape == Len(effects.shapes) < MaxShapeFetches
MayPoll == Len(effects.cycles) < MaxPolls

ShapeNext ==
    \/ Mount
    \/ SummaryLoadedWith(TripsBody)
    \/ \E k \in 1..MaxPolls, feed \in ShapeFeeds : VehiclesRespond(k, feed)
    \/ \E k \in 1..MaxPolls : MayFetchShape /\ VehiclesDecoded(k)
    \/ \E id \in ShapeVehicleIds : MayFetchShape /\ SelectVehicle(id)
    \/ MayPoll /\ IntervalTick(FALSE)
    \/ Unmount(FALSE)
    \/ \E j \in 1..MaxShapeFetches : ShapeRespond(j)
    \/ \E j \in 1..MaxShapeFetches : ShapeDecoded(j)
    \/ \E j \in 1..MaxShapeFetches : ShapeFail(j)

ShapeSpec == ShapeInit /\ [][ShapeNext]_vars


----------------------------------------------------------------------------
(* The arrivals hook (useUpcommingArrivals)                                *)

MaxRequests == 3

\* The stopId values the component passes: none, two stops with arrivals,
\* a stop the server does not know.
HookStopIds == {"", "S1", "S2", "S9"}

\* The hook runs against a server whose archive gives S1 and S2 one entry.
HookArchives ==
    {archive \in ShortArchives :
        /\ archive.stop_times = <<StopTimeRow("S1", "T1", Chars0800, <<"1">>),
                                  StopTimeRow("S2", "T1", Chars0830, <<"4">>)>>
        /\ archive.calendar = Calendar(TRUE, Date20241231)}

HookInit ==
    /\ phase = "listening"
    /\ \E archive \in HookArchives :
          /\ routes = RouteList(archive.routes)
          /\ stops = StopList(archive.stops)
          /\ staticTrips = TripList(archive.trips)
          /\ shapesById = BuildShapes(archive.shapes)
          /\ stopSchedulesByStopId = BuildStopSchedules(archive.stop_times)
          /\ staticTripsById = BuildTrips(archive.trips)
          /\ routesById = BuildRoutes(archive.routes)
          /\ calendarByServiceId = BuildCalendar(archive.calendar)
    /\ clock = At(2024, 3, 4, 6, 30)
    /\ pending = NoPending
    /\ last = NoResponse
    /\ app = InitialApp
    /\ effects = NotMounted
    /\ hook = NotRendered

NewRequest(stopId) ==
    [stopId |-> stopId, cancelled |-> FALSE, state |-> "fetching",
     payload |-> [arrivals |-> <<>>]]

\* A call of load() that is over holds no response any more.
Over(request, state) ==
    [request EXCEPT !.state = state, !.payload = [arrivals |-> <<>>]]

\* The cleanup of the effect run for the previous stopId, if that run
\* returned one: cancelled = true; controller.abort()
cleanup(h) ==
    IF h.stopId = "" \/ h.requests = <<>> THEN h
    ELSE [h EXCEPT !.requests[Len(h.requests)].cancelled = TRUE]

\* The body of the effect for stopId
effect(h, stopId) ==
    IF stopId = ""
    THEN [h EXCEPT !.stopId = stopId, !.arrivals = <<>>, !.shownFor = "",
                   !.error = NullStr]
    ELSE [h EXCEPT !.stopId = stopId, !.loading = TRUE, !.error = NullStr,
                   !.requests = Append(@, NewRequest(stopId))]

HookFrame == UNCHANGED <<server, app, effects>>

\* The first render with its effect
HookMount(stopId) ==
    /\ ~hook.mounted /\ ~hook.unmounted
    /\ hook' = effect([hook EXCEPT !.mounted = TRUE], stopId)
    /\ HookFrame

\* A render with another stopId: the cleanup of the last effect, then the effect
ChangeStop(stopId) ==
    /\ hook.mounted
    /\ stopId # hook.stopId
    /\ stopId = "" \/ Len(hook.requests) < MaxRequests
    /\ hook' = effect(cleanup(hook), stopId)
    /\ HookFrame

HookUnmount ==
    /\ hook.mounted
    /\ hook' = [cleanup(hook) EXCEPT !.mounted = FALSE, !.unmounted = TRUE]
    /\ HookFrame

\* load(): fetch() resolves with an ok response (it rejects once aborted)
HookRespond(k) ==
    /\ k \in 1..Len(hook.requests)
    /\ hook.requests[k].state = "fetching" /\ ~hook.requests[k].cancelled
    /\ hook' = [hook EXCEPT
                   !.requests[k].state = "decoding",
                   !.requests[k].payload =
                       [arrivals |-> StaticStopArrivals(hook.requests[k].stopId)]]
    /\ HookFrame

\* Mutant of HookDecoded: the response is applied whatever `cancelled` says.
HookDecodedUnchecked(k) ==
    /\ k \in 1..Len(hook.requests)
    /\ hook.requests[k].state = "decoding"
    /\ hook' = [hook EXCEPT
                   !.arrivals = OrEmpty(hook.requests[k].payload, "arrivals"),
                   !.shownFor = hook.requests[k].stopId,
                   !.loading = FALSE,
                   !.requests[k] = Over(@, "applied")]
    /\ HookFrame

\* load(): response.json() resolves; setArrivals and the finally block
HookDecoded(k) ==
    /\ k \in 1..Len(hook.requests)
    /\ hook.requests[k].state = "decoding"
    /\ hook' = IF hook.requests[k].cancelled
               THEN [hook EXCEPT !.requests[k] = Over(@, "ignored")]
               ELSE [hook EXCEPT
                        !.arrivals = OrEmpty(hook.requests[k].payload, "arrivals"),
                        !.shownFor = hook.requests[k].stopId,
                        !.loading = FALSE,
                        !.requests[k] = Over(@, "applied")]
    /\ HookFrame

\* load(): fetch() rejects (network, or AbortError after the cleanup), the
\* status is not ok, or response.json() rejects; the catch and the finally
HookFail(k) ==
    /\ k \in 1..Len(hook.requests)
    /\ hook.requests[k].state \in {"fetching", "decoding"}
    /\ hook' = IF hook.requests[k].cancelled
               THEN [hook EXCEPT !.requests[k] = Over(@, "ignored")]
               ELSE [hook EXCEPT !.error = "error", !.loading = FALSE,
                                 !.requests[k] = Over(@, "failed")]
    /\ HookFrame

HookNext ==
    \/ \E stopId \in HookStopIds : HookMount(stopId)
    \/ \E stopId \in HookStopIds : ChangeStop(stopId)
    \/ HookUnmount
    \/ \E k \in 1..MaxRequests : HookRespond(k)
    \/ \E k \in 1..MaxRequests : HookDecoded(k)
    \/ \E k \in 1..MaxRequests : HookFail(k)

HookSpec == HookInit /\ [][HookNext]_vars


----------------------------------------------------------------------------
(* Properties                                                              *)

Range(list) == {list[i] : i \in 1..Len(list)}
DayOf(t) == t \div SecondsPerDay

\* The service-running test of the design: a calendar entry exists, the
\* weekday flag of the day is set, and the day is within [start, end].
ServiceRunsOn(serviceId, day) ==
    /\ serviceId \in DOMAIN calendarByServiceId
    /\ calendarByServiceId[serviceId][weekdayKeys[((day + 4) % 7) + 1]]
    /\ DayOf(calendarByServiceId[serviceId].startDate) <= day
    /\ day <= DayOf(calendarByServiceId[serviceId].endDate)

MergedDone == last.route = "merged" /\ last.status = 200
StaticDone == last.route = "static" /\ last.status = 200
RealtimeDone == last.fetched /\ last.status = 200
OutsideWindow == Abs(last.time - last.now) > TwoHours

\* The instant at which the handler computed the scheduled arrivals.
ComputedAt == IF last.fetched THEN last.rtNow ELSE last.now

HasDuplicateTrip(list) ==
    \E i, j \in 1..Len(list) : i # j /\ list[i].tripId = list[j].tripId

\* C1: scheduledArrivals(stopId, atTime) applies the service-running test to
\* atTime, not to the instant at which the query is handled: every entry
\* returned belongs to a trip whose service runs at atTime, and every
\* upcoming entry of such a trip is returned.
C1_ServiceTestedOnQueryDate ==
    MergedDone =>
        LET schedule == ScheduleOf(last.stopId)
        IN  /\ \A i \in 1..Len(last.scheduled) :
                  /\ last.scheduled[i].tripId \in DOMAIN staticTripsById
                  /\ isServiceRunningToday(
                        staticTripsById[last.scheduled[i].tripId].service_id,
                        last.time)
            /\ \A j \in 1..Len(schedule) :
                  ( /\ schedule[j].arrivalSeconds >= secondsSinceMidnight(last.time)
                    /\ schedule[j].tripId \in DOMAIN staticTripsById
                    /\ isServiceRunningToday(
                          staticTripsById[schedule[j].tripId].service_id,
                          last.time) )
                  => \E i \in 1..Len(last.scheduled) :
                        /\ last.scheduled[i].tripId = schedule[j].tripId
                        /\ last.scheduled[i].arrivalTime = schedule[j].arrivalTime

\* C2: for a trip identifier in both the realtime and the scheduled list
\* given to the merge, the merged result holds no scheduled entry of that
\* trip: every entry of the trip is its realtime entry, and that entry is
\* there whenever the merge did not cut the list.
C2_RealtimeTakesPrecedence ==
    MergedDone =>
        \A r \in Range(last.realtime) :
            (\E s \in Range(last.scheduled) : s.tripId = r.tripId)
            => /\ \A a \in Range(last.arrivals) :
                     a.tripId = r.tripId => (a = r /\ a.dataSource = "Realtime")
               /\ (Len(last.realtime) + Len(last.scheduled) <= MaxArrivals
                   => r \in Range(last.arrivals))

C2_Witness ==
    /\ MergedDone
    /\ \E r \in Range(last.realtime) :
          /\ \E s \in Range(last.scheduled) : s.tripId = r.tripId
          /\ r \in Range(last.arrivals)

\* C3: the merged result never holds two entries with the same trip
\* identifier, also when the scheduled list holds a trip more than once.
C3_MergedTripsDistinct ==
    MergedDone => ~HasDuplicateTrip(last.arrivals)

C3_Witness ==
    MergedDone /\ HasDuplicateTrip(last.scheduled) /\ last.arrivals # <<>>

\* C4 as stated: outside the realtime window the merged result is the list
\* of scheduled arrivals itself.
C4_MergedEqualsScheduled ==
    (MergedDone /\ OutsideWindow) => last.arrivals = last.scheduled

IsSortedByArrivalTime(list) ==
    \A i \in 1..(Len(list) - 1) :
        localeCompare(list[i].arrivalTime, list[i + 1].arrivalTime) <= 0

\* C4 as amended: outside the realtime window the merged result holds
\* scheduled arrivals only, for each trip the first of its entries in the
\* scheduled list; it is the scheduled list itself when that list has no
\* repeated trip, at most 20 entries and ascending time strings.
C4_MergedIsScheduledDeduplicated ==
    (MergedDone /\ OutsideWindow) =>
        /\ ~last.fetched
        /\ \A a \in Range(last.arrivals) :
              /\ a.dataSource = "Scheduled"
              /\ \E i \in 1..Len(last.scheduled) :
                    /\ last.scheduled[i] = a
                    /\ \A j \in 1..(i - 1) : last.scheduled[j].tripId # a.tripId
        /\ ( /\ ~HasDuplicateTrip(last.scheduled)
             /\ Len(last.scheduled) <= MaxArrivals
             /\ IsSortedByArrivalTime(last.scheduled) )
           => last.arrivals = last.scheduled

C4_Witness ==
    /\ MergedDone /\ OutsideWindow
    /\ Len(last.scheduled) >= 2
    /\ last.arrivals = last.scheduled

\* C5: a merged-arrivals request whose trip-updates download or decode fails
\* is still answered successfully, with the schedule-only result.
C5_FeedFailureDegradesToSchedule ==
    (last.route = "merged" /\ last.fetched) => last.status = 200

\* C6: a service runs at an instant iff it has a calendar entry, the weekday
\* flag of the instant's date is set and the date is within [start, end],
\* both inclusive, at any time of day.
C6_ServiceRunsIffCalendarSaysSo ==
    phase = "listening" =>
        \A serviceId \in {"WD", "WE", "XX"} :
            isServiceRunningToday(serviceId, clock)
                <=> ServiceRunsOn(serviceId, DayOf(clock))

\* C7: no entry returned by scheduledArrivals has seconds-since-midnight
\* below the seconds-since-midnight of the query time.
C7_NoEntryBeforeQueryTime ==
    /\ MergedDone =>
          \A a \in Range(last.scheduled) :
              timeToSeconds(a.arrivalTime) >= secondsSinceMidnight(last.time)
    /\ StaticDone =>
          \A a \in Range(last.arrivals) :
              timeToSeconds(a.arrivalTime) >= secondsSinceMidnight(last.now)

C7_Witness ==
    /\ MergedDone
    /\ last.scheduled # <<>>
    /\ \E e \in Range(ScheduleOf(last.stopId)) :
          /\ e.arrivalSeconds < secondsSinceMidnight(last.time)
          /\ TripRuns(e, ComputedAt)

\* The entries of the stop that pass the time filter and the service filter
\* the handler applies, in stored order.
PassingBothFilters(stopId, seconds, today) ==
    LET Upcoming(entry) == entry.arrivalSeconds >= seconds
        Running(entry)  == TripRuns(entry, today)
    IN  MapArrivals(SelectSeq(SelectSeq(ScheduleOf(stopId), Upcoming), Running))

\* C8: scheduledArrivals returns the first 20, in stored order, of the
\* entries that pass both the time filter and the service filter.
C8_FirstTwentyAfterCalendarFilter ==
    /\ MergedDone =>
          last.scheduled =
              slice0(PassingBothFilters(last.stopId,
                         secondsSinceMidnight(last.time), ComputedAt), MaxArrivals)
    /\ StaticDone =>
          last.arrivals =
              slice0(PassingBothFilters(last.stopId,
                         secondsSinceMidnight(last.now), ComputedAt), MaxArrivals)

InWindow(at) == at >= last.rtNow /\ at <= last.rtNow + TwoHours

\* C9: every entry of realtimeArrivals comes from a prediction that lies in
\* [now, now + 2h], now being the instant at which the feed is scanned.
C9_RealtimeWithinWindow ==
    RealtimeDone =>
        /\ \A k \in last.kept : InWindow(k.at)
        /\ \A a \in Range(last.realtime) :
              \E k \in last.kept :
                  k.tripId = a.tripId /\ a.arrivalTime = formatHHMM(k.at)

C9_Witness ==
    /\ RealtimeDone
    /\ last.realtime # <<>>
    /\ \E p \in last.offered : p.at < last.rtNow
    /\ \E p \in last.offered : p.at > last.rtNow + TwoHours

\* C10: realtimeArrivals holds at most one entry per trip, made from the
\* earliest of the trip's predictions for the stop that lie in the window.
C10_EarliestPerTripKept ==
    RealtimeDone =>
        /\ ~HasDuplicateTrip(last.realtime)
        /\ \A k \in last.kept :
              \A p \in last.offered :
                  (p.tripId = k.tripId /\ InWindow(p.at)) => k.at <= p.at

MergedHandled == last.route = "merged" /\ last.status # 400

\* What getScheduledArrivalsAtStop(stopId, time) returns when run at `today`.
ScheduledAt(stopId, time, today) ==
    LET Upcoming(entry) == IsUpcoming(entry, secondsSinceMidnight(time))
        Running(entry)  == TripRuns(entry, today)
    IN  MapArrivals(SelectSeq(SelectSeq(ScheduleOf(stopId), Upcoming), Running))

\* The trip-updates download is started for a merged request exactly when
\* the request time is within two hours of the instant of the request.
FetchIffWithinWindow ==
    /\ pending.route = "merged" => Abs(pending.time - pending.now) <= TwoHours
    /\ MergedHandled => (last.fetched <=> ~OutsideWindow)

\* C11: handling a merged-arrivals request downloads the trip updates if
\* and only if |requestTime - now| <= 2 hours, never for a request time
\* outside that window, and the scheduled arrivals are computed for every
\* request handled.
C11_FetchIffWindowScheduledAlways ==
    /\ FetchIffWithinWindow
    /\ MergedHandled =>
          /\ last.status = 200
          /\ last.scheduled = ScheduledAt(last.stopId, last.time, ComputedAt)

\* The deduplicated union the merge works on: every realtime arrival, and of
\* the scheduled arrivals the first of each trip that has no realtime one.
MergedUnion ==
    Range(last.realtime) \cup
    {last.scheduled[i] : i \in {k \in 1..Len(last.scheduled) :
        /\ \A r \in Range(last.realtime) : r.tripId # last.scheduled[k].tripId
        /\ \A j \in 1..(k - 1) :
              last.scheduled[j].tripId # last.scheduled[k].tripId}}

Unassigned ==
    /\ routes = UndefinedList /\ stops = UndefinedList
    /\ staticTrips = UndefinedList /\ shapesById = UndefinedMap
    /\ stopSchedulesByStopId = UndefinedMap /\ staticTripsById = UndefinedMap
    /\ routesById = UndefinedMap /\ calendarByServiceId = UndefinedMap

Assigned ==
    /\ routes # UndefinedList /\ stops # UndefinedList
    /\ staticTrips # UndefinedList /\ shapesById # UndefinedMap
    /\ stopSchedulesByStopId # UndefinedMap /\ staticTripsById # UndefinedMap
    /\ routesById # UndefinedMap /\ calendarByServiceId # UndefinedMap

\* The maps by id hold the routes and the trips of the lists.
ListsAndMapsAgree ==
    /\ DOMAIN routesById = {route.route_id : route \in Range(routes)}
    /\ \A id \in DOMAIN routesById : routesById[id] \in Range(routes)
    /\ DOMAIN staticTripsById = {trip.trip_id : trip \in Range(staticTrips)}
    /\ \A id \in DOMAIN staticTripsById :
          staticTripsById[id] \in Range(staticTrips)

\* C13: a request is handled only once the static build has succeeded; when
\* a required table is missing or does not parse the server is not
\* listening; and the index variables are either all unassigned or all
\* assigned, from the same tables.
C13_BuildAllOrNothing ==
    /\ phase # "listening" =>
          Unassigned /\ pending = NoPending /\ last = NoResponse
    /\ phase = "listening" => Assigned /\ ListsAndMapsAgree
    /\ Assigned \/ Unassigned

C13_Witness ==
    /\ phase = "listening"
    /\ last.route = "summary" /\ last.status = 200
    /\ last.body.staticTrips = staticTrips
    /\ DOMAIN stopSchedulesByStopId # {} /\ DOMAIN shapesById # {}

\* C14: once a newer poll cycle has started, the response of an earlier
\* cycle is never committed to the vehicles: every commit is made by the
\* newest cycle started, and commits follow the order in which the cycles
\* started.
C14_StaleResponseNeverCommitted ==
    /\ \A i \in 1..Len(effects.commits) :
          effects.commits[i].cycle = effects.commits[i].newest
    /\ \A i, j \in 1..Len(effects.commits) :
          i < j => effects.commits[i].cycle < effects.commits[j].cycle

\* Cycle k fails in this step: its catch runs for an error that is not an
\* AbortError.
CycleFails(k) ==
    /\ k \in 1..Len(effects.cycles)
    /\ effects.cycles[k].state # "failed"
    /\ effects'.cycles[k].state = "failed"

\* C15: a poll cycle whose fetch fails (network failure, non-success status,
\* undecodable body) leaves the vehicles as they are, records the error and
\* nothing else, and starts no fetch: the next one starts with the next
\* interval tick.
C15_FailedCycleKeepsSnapshot ==
    [][\A k \in 1..MaxCycles :
          CycleFails(k) =>
              /\ app'.vehicles = app.vehicles
              /\ app' = [app EXCEPT !.realtimeError = app'.realtimeError]
              /\ ~effects.cancelled => app'.realtimeError = "error"
              /\ Len(effects'.cycles) = Len(effects.cycles)
              /\ \A j \in 1..Len(effects.cycles) :
                    j # k => effects'.cycles[j] = effects.cycles[j]]_vars

C15_Witness ==
    /\ \E k \in 1..Len(effects.cycles) :
          /\ effects.cycles[k].state = "failed"
          /\ \A j \in (k + 1)..Len(effects.cycles) :
                effects.cycles[j].state = "fetching"
    /\ app.vehicles # <<>>
    /\ app.realtimeError = "error"

UnknownStop == last.stopId \notin DOMAIN stopSchedulesByStopId
UnknownShape == last.shapeId \notin DOMAIN shapesById

\* C16: for a stop identifier or a shape identifier that the static indices
\* do not hold, scheduledArrivals and shapePolyline answer successfully with
\* an empty list.
C16_UnknownIdsGiveEmptyLists ==
    /\ (last.route = "static" /\ last.status # 400 /\ UnknownStop) =>
          last.status = 200 /\ last.arrivals = <<>>
    /\ (MergedHandled /\ ~last.fetched /\ UnknownStop) =>
          last.status = 200 /\ last.scheduled = <<>> /\ last.arrivals = <<>>
    /\ (MergedDone /\ UnknownStop) => last.scheduled = <<>>
    /\ (last.route = "shape" /\ last.status # 400 /\ UnknownShape) =>
          last.status = 200 /\ last.body.points = <<>>

C16_Witness ==
    /\ last.route = "shape" /\ last.status = 200
    /\ UnknownShape /\ DOMAIN shapesById # {}
    /\ last.body.points = <<>>

\* The request answered last lacked its required query parameter.
ParameterMissing ==
    \/ last.route = "shape" /\ last.shapeId = ""
    \/ last.route \in {"static", "realtime", "merged"} /\ last.stopId = ""

\* C17: a shape, scheduled-arrivals, realtime-arrivals or merged-arrivals
\* request without its required query parameter is answered 400, with no
\* feed download started for it and no index or other state changed.
C17_MissingParameterIsClientError ==
    /\ [](/\ ParameterMissing =>
                /\ last.status = 400 /\ ~last.fetched
                /\ last.arrivals = <<>> /\ last.body = <<>>
          /\ pending.route \in {"realtime", "merged"} => pending.stopId # "")
    /\ [][(last'.status = 400 /\ last' # last) =>
              /\ pending = NoPending /\ pending' = NoPending
              /\ UNCHANGED <<static, clock, client>>]_vars

C17_Witness ==
    /\ phase = "listening"
    /\ last.route = "realtime" /\ ParameterMissing /\ last.status = 400

ShapeDone == last.route = "shape" /\ last.status = 200

\* C18: the points returned for a shape of two points or more are in
\* strictly ascending order of sequence number, whatever the archive:
\* no two adjacent points have the same sequence number.
C18_ShapePointsStrictlyAscending ==
    ShapeDone =>
        \A i \in 1..(Len(last.body.points) - 1) :
            last.body.points[i].shape_pt_sequence
                < last.body.points[i + 1].shape_pt_sequence

VehiclesDone == last.route = "vehicles" /\ last.status = 200

RecordsOf(entity) ==
    {i \in 1..Len(last.body.vehicles) : last.body.vehicles[i].entityId = entity.id}

\* The trip-update scan makes no arrival for an entity without a trip
\* identifier.
NoArrivalWithoutTripId ==
    last.route \in {"realtime", "merged"} =>
        /\ \A a \in Range(last.realtime) : a.tripId # ""
        /\ \A k \in last.kept : k.tripId # ""
        /\ last.unnamed # <<>> => last.status = 200

\* C19 as stated: the vehicle list of the decoder holds no record for a feed
\* entity that has no position, and the trip-update scan makes no arrival
\* for an entity that has no trip identifier.
C19_NoRecordWithoutPosition ==
    /\ VehiclesDone =>
          \A entity \in Range(last.feed) :
              ~entity.hasPosition => RecordsOf(entity) = {}
    /\ NoArrivalWithoutTripId

\* C19 as amended: the vehicle list of the server holds one record for each
\* entity that has a vehicle message and none for the others; the record of
\* a vehicle without position has no coordinates, and the client's poll
\* keeps the records with a finite latitude and longitude only; the
\* trip-update scan makes no arrival for an entity without trip identifier.
C19_NoRecordWithoutVehicle ==
    /\ VehiclesDone =>
          /\ \A entity \in Range(last.feed) :
                /\ ~entity.hasVehicle => RecordsOf(entity) = {}
                /\ entity.hasVehicle => Cardinality(RecordsOf(entity)) = 1
                /\ \A i \in RecordsOf(entity) :
                      LET position == last.body.vehicles[i].position
                      IN  ~entity.hasPosition =>
                              position.latitude = Null /\ position.longitude = Null
          /\ Len(nowVehicles(last.body)) =
                Cardinality({i \in 1..Len(last.feed) :
                    last.feed[i].hasVehicle /\ last.feed[i].hasPosition})
          /\ \A vehicle \in Range(nowVehicles(last.body)) :
                /\ vehicle.latitude = 44650
                /\ vehicle.longitude = 0 - 63575
    /\ NoArrivalWithoutTripId

C19_Witness ==
    /\ VehiclesDone
    /\ \E entity \in Range(last.feed) :
          entity.hasVehicle /\ ~entity.hasPosition /\ RecordsOf(entity) # {}
    /\ Len(nowVehicles(last.body)) = 1


\* C20: after a successful load of the static summary the client's routes,
\* stops and trips lists equal the server's routes, stops and trips lists,
\* and a non-empty server trips list never gives an empty client trips list.
SummaryApplied == effects.summary = "loaded" /\ ~app.loadingStatic
RoutesAndStopsApplied == SummaryApplied => app.routes = routes /\ app.stops = stops
C20_ClientListsEqualServerLists ==
    SummaryApplied =>
        /\ app.routes = routes
        /\ app.stops = stops
        /\ app.trips = staticTrips
        /\ staticTrips # <<>> => app.trips # <<>>

\* The stored numbers that are 0, and the rows of the archive that gave 0.
ZeroPoints(shapeId) ==
    {i \in 1..Len(shapesById[shapeId]) :
        shapesById[shapeId][i].shape_pt_sequence = 0}
ZeroPointRows(shapesRaw, shapeId) ==
    {j \in 1..Len(shapesRaw) :
        /\ shapesRaw[j].shape_id = shapeId /\ ShapeRowKept(shapesRaw[j])
        /\ parseIntSafe(shapesRaw[j].shape_pt_sequence) = 0}
ZeroStopSequences(stopId) ==
    {i \in 1..Len(stopSchedulesByStopId[stopId]) :
        stopSchedulesByStopId[stopId][i].stopSequence = 0}
ZeroStopSequenceRows(stopTimesRaw, stopId) ==
    {j \in 1..Len(stopTimesRaw) :
        /\ stopTimesRaw[j].stop_id = stopId /\ StopTimeRowKept(stopTimesRaw[j])
        /\ parseIntSafe(stopTimesRaw[j].stop_sequence) = 0}

\* Route type and direction flag are 0 only where the archive says 0.
TypesAndDirectionsKeepAbsent(archive) ==
    /\ \A i \in 1..Len(routes) :
          routes[i].route_type = 0 => parseInt10(archive.routes[i].route_type) = 0
    /\ \A i \in 1..Len(staticTrips) :
          staticTrips[i].direction_id = 0
              => parseInt10(archive.trips[i].direction_id) = 0
    /\ \A id \in DOMAIN routesById : routesById[id].route_type \in {0, Null} =>
          \E i \in 1..Len(archive.routes) :
              /\ archive.routes[i].route_id = id
              /\ parseIntSafe(archive.routes[i].route_type) = routesById[id].route_type
    /\ \A id \in DOMAIN staticTripsById :
          staticTripsById[id].direction_id \in {0, Null} =>
              \E i \in 1..Len(archive.trips) :
                  /\ archive.trips[i].trip_id = id
                  /\ parseIntSafe(archive.trips[i].direction_id)
                        = staticTripsById[id].direction_id

SequencesKeepAbsent(archive) ==
    /\ \A id \in DOMAIN shapesById :
          Cardinality(ZeroPoints(id)) = Cardinality(ZeroPointRows(archive.shapes, id))
    /\ \A id \in DOMAIN stopSchedulesByStopId :
          Cardinality(ZeroStopSequences(id))
              = Cardinality(ZeroStopSequenceRows(archive.stop_times, id))

TypesAndDirectionsStayAbsent ==
    [][\A archive \in Archives :
          Bootstrap(archive) => TypesAndDirectionsKeepAbsent(archive)']_vars

\* C21: a route type, direction flag, shape-point sequence number or stop
\* sequence number that the archive leaves blank or non-numeric is never
\* stored as 0: the build stores a 0 only for a row that gives 0.
C21_AbsentNumbersNeverStoredAsZero ==
    [][\A archive \in Archives :
          Bootstrap(archive) =>
              (TypesAndDirectionsKeepAbsent(archive)
                  /\ SequencesKeepAbsent(archive))']_vars

\* C22: once the server listens, no request changes the content or the order
\* of a static index: the lists of routes, stops and trips, the shape point
\* lists, the per-stop schedule lists and the trip, route and calendar maps
\* are the same before and after every step of every request.
C22_StaticIndicesNeverMutated ==
    [][phase = "listening" => UNCHANGED static]_vars

C22_Witness ==
    /\ phase = "listening"
    /\ last.status = 200 /\ last.route \in {"static", "merged"}
    /\ ScheduleOf(last.stopId) # <<>>
    /\ Len(last.arrivals) >= 1

\* The build and the query give every indexed entry the same seconds.
SecondsAgree ==
    \A id \in DOMAIN stopSchedulesByStopId :
        \A entry \in Range(stopSchedulesByStopId[id]) :
            timeToSecondsOfQuery(entry.arrivalTime) = entry.arrivalSeconds

\* An indexed time of day of 24:00:00 or later has the same seconds in both.
LateTimesAgree ==
    phase = "listening" =>
        \A id \in DOMAIN stopSchedulesByStopId :
            \A entry \in Range(stopSchedulesByStopId[id]) :
                entry.arrivalSeconds >= SecondsPerDay =>
                    timeToSecondsOfQuery(entry.arrivalTime) = entry.arrivalSeconds

\* C23: for every entry of the per-stop index the seconds the query computes
\* from the time string equal the arrivalSeconds of the build, so an entry
\* whose arrivalSeconds is at or after the query seconds and whose service
\* runs is in scheduledArrivals.
C23_QuerySecondsEqualBuildSeconds ==
    /\ phase = "listening" => SecondsAgree
    /\ MergedDone =>
          \A entry \in Range(ScheduleOf(last.stopId)) :
              (entry.arrivalSeconds >= secondsSinceMidnight(last.time)
                  /\ TripRuns(entry, ComputedAt))
                  => \E a \in Range(last.scheduled) :
                         a.tripId = entry.tripId /\ a.arrivalTime = entry.arrivalTime

\* C24: every arrival of a merged response is not earlier than requestTime:
\* a scheduled one by its time of day, a realtime one by the instant of the
\* prediction it was made from; so for a requestTime after now and within
\* the two-hour window no prediction before requestTime is returned.
C24_NoArrivalBeforeRequestTime ==
    MergedDone =>
        \A a \in Range(last.arrivals) :
            IF a.dataSource = "Scheduled"
            THEN timeToSeconds(a.arrivalTime) >= secondsSinceMidnight(last.time)
            ELSE \E k \in last.kept :
                     /\ k.tripId = a.tripId /\ formatHHMM(k.at) = a.arrivalTime
                     /\ k.at >= last.time

InFlight(k) == hook.requests[k].state \in {"fetching", "decoding"}

\* C25: in the stop-arrivals hook, after any sequence of stopId changes, the
\* loading flag is false whenever no request is in flight.
C25_LoadingOnlyWhileInFlight ==
    (hook.mounted /\ \A k \in 1..Len(hook.requests) : ~InFlight(k))
        => ~hook.loading

\* The request k was issued by an effect that is no longer the current one.
Stale(k) ==
    \/ ~hook.mounted
    \/ k < Len(hook.requests)
    \/ hook.stopId # hook.requests[k].stopId

HookCells == <<hook.arrivals, hook.error, hook.loading>>

\* C26: the outcome of a request, success or failure, changes none of
\* arrivals, error and loading once the stopId has changed or the component
\* has unmounted, in whatever order the outcomes arrive.
C26_StaleOutcomeNeverApplied ==
    [][\A k \in 1..Len(hook.requests) :
          (Stale(k) /\ InFlight(k) /\ ~InFlight(k)') => UNCHANGED HookCells]_vars

C26_Witness ==
    /\ hook.mounted
    /\ Len(hook.requests) >= 2
    /\ hook.requests[1].state = "ignored"
    /\ hook.requests[2].state = "applied"
    /\ hook.arrivals # <<>>

\* C27: the arrivals the hook exposes were fetched for the current stopId.
C27_ArrivalsBelongToCurrentStop ==
    (hook.mounted /\ hook.arrivals # <<>>) => hook.shownFor = hook.stopId

VehicleCells == <<app.vehicles, app.realtimeError>>

CycleInFlight(k) == effects.cycles[k].state \in {"fetching", "decoding"}

\* After the cleanup of the poll effect no fetch is started and nothing is
\* applied to vehicles or realtimeError.
NothingAfterCleanup ==
    [][effects.cancelled =>
          /\ UNCHANGED VehicleCells
          /\ Len(effects.cycles') = Len(effects.cycles)]_vars

\* C28: the end of a vehicles fetch whose controller was aborted, by the
\* next interval tick or by the cleanup, changes neither vehicles nor
\* realtimeError; and after the cleanup no fetch is started and no result
\* or error is applied.
C28_AbortedFetchChangesNothing ==
    [][/\ \A k \in 1..Len(effects.cycles) :
             (effects.cycles[k].aborted /\ CycleInFlight(k) /\ ~CycleInFlight(k)')
                 => UNCHANGED VehicleCells
       /\ effects.cancelled =>
             /\ UNCHANGED VehicleCells
             /\ Len(effects.cycles') = Len(effects.cycles)]_vars

\* The selection the effect on [vehicles] leaves for a list, coming from the
\* selection `current`.
SelectionFor(list, current) ==
    IF list = <<>> THEN NullStr
    ELSE IF \E i \in 1..Len(list) : list[i].id = current THEN current
    ELSE list[1].id

\* C29: once a vehicles update has been processed, no vehicle is selected
\* iff the list is empty, and otherwise the selected id is the id of a
\* vehicle of the list; the update keeps the previous selection when that
\* vehicle is still in the list and selects the first vehicle when not.
C29_SelectionFollowsVehicles ==
    /\ [](/\ app.selectedVehicleId = NullStr <=> app.vehicles = <<>>
          /\ app.vehicles # <<>> => HasVehicle(app, app.selectedVehicleId))
    /\ [][app.vehicles' # app.vehicles =>
             app.selectedVehicleId'
                 = SelectionFor(app.vehicles', app.selectedVehicleId)]_vars

C29_Witness ==
    /\ Len(effects.commits) >= 2
    /\ Len(app.vehicles) = 2
    /\ app.selectedVehicleId = app.vehicles[2].id
    /\ app.selectedVehicleId # app.vehicles[1].id

ShapeInFlight(j) == effects.shapes[j].state \in {"fetching", "decoding"}

\* C30: the shape cache of the client is write-once per shape id: an entry
\* is never replaced or removed, so the set of cached ids only grows; no
\* shape fetch is started for an id the cache has; and the result of a
\* fetch that ends after the selected trip changed is not written.
C30_ShapeCacheWriteOnce ==
    [][/\ \A id \in DOMAIN app.shapeCache :
             /\ id \in DOMAIN app.shapeCache'
             /\ app.shapeCache'[id] = app.shapeCache[id]
       /\ \A j \in (Len(effects.shapes) + 1)..Len(effects.shapes') :
             /\ effects.shapes'[j].shapeId \notin DOMAIN app.shapeCache
             /\ effects.shapes'[j].shapeId \notin DOMAIN app.shapeCache'
       /\ \A j \in 1..Len(effects.shapes) :
             (effects.shapes[j].tripChanged /\ ShapeInFlight(j) /\ ~ShapeInFlight(j)')
                 => UNCHANGED <<app.shapeCache, app.shapeError>>]_vars

C30_Witness ==
    /\ \E j \in 1..Len(effects.shapes) :
          /\ effects.shapes[j].state = "ignored" /\ effects.shapes[j].tripChanged
          /\ effects.shapes[j].shapeId \in DOMAIN app.shapeCache
    /\ Cardinality(DOMAIN app.shapeCache) >= 2

====
